---- MODULE Spec2Model ----
(***************************************************************************)
(* Model of jonOsm/multiplayer-lobby: the Lobby Registry (manager.go), the  *)
(* Session Registry (session.go) and the message handlers (handlers.go).    *)
(*                                                                          *)
(* Every LobbyManager / SessionManager method runs under the registry's     *)
(* mutex, so each method is one atomic step; it is written as an operator   *)
(* from the registry before the call to the registry after it, the error it *)
(* returns and the hooks it fires, translated statement by statement.       *)
(* Fields the modelled operations never read (Name, CreatedAt, Public,      *)
(* Metadata) are left out of the records.                                   *)
(***************************************************************************)
EXTENDS Integers, Sequences, FiniteSets, TLC

\* ---------------------------------------------------------------- bounds
MaxSessions == 3      \* ids / tokens the generators hand out: 1..MaxSessions
MaxCap == 2           \* largest max_players value a caller passes
MaxTime == 1          \* the clock runs 0..MaxTime

\* ---------------------------------------------------------------- inputs
Names == {"Room", "Arena"}                 \* lobby names (LobbyID(name))
MgrNames == {"Room"}                       \* names the direct callers use
MgrPlayers == 1..MaxCap                    \* players the direct callers pass
Usernames == {"alice", "bob"}
UserIDs == 1..MaxSessions                  \* session ids = player ids
MaxPlayersValues == (0 - 1)..MaxCap        \* CreateLobby takes any int
NoID == 0                                  \* "" as a user / player id
NoToken == 0                               \* "" as a token (field omitted)
BogusToken == 0 - 1                        \* a token no session was issued
NoLobby == ""                              \* "" as UserSession.LobbyID

\* ---------------------------------------------------------------- lobby.go
LobbyWaiting == 0
LobbyInGame == 1
LobbyFinished == 2
LobbyStates == {LobbyWaiting, LobbyInGame, LobbyFinished}
NoState == 0 - 1                           \* "no such lobby" in lastOp.val

VARIABLES
  lobbies,        \* LobbyManager.lobbies : LobbyID -> Lobby
  sessions,       \* SessionManager.sessions : userID -> UserSession
  usernameToID,   \* SessionManager.usernameToID : username -> userID
  nextId,         \* how many ids / tokens the random generators have issued
  now,            \* time.Now()
  Events,         \* LobbyManager.Events: "nil", "hooks" or "custom"
  Validator,      \* validateGameStart of the router: "nil", "accept",
                  \* "default" or "owner"
  mu,             \* LobbyManager.mu: the goroutine holding it, 0 if unlocked
  pc,             \* where each goroutine calling the LobbyManager stands
  call,           \* the call each goroutine is making, with its result
  pending,        \* hooks and sends a goroutine's call has still to perform
  smMu,           \* SessionManager.mu: the writer (0 if none) and the readers
  lastOp,         \* the call or request that made the last step, its result
  fired,          \* hooks and sends performed by the last step, in order
  resp,           \* messages the last request wrote to its connection
  middleware,     \* MessageRouter.middleware, in the order of the Use calls
  dispatched,     \* the last Dispatch: raw message, invocations, return value
  validated       \* the last call of a game-start validator and its error

goroutines == <<mu, pc, call, pending, smMu>>
router == <<middleware, dispatched, validated>>

vars == <<lobbies, sessions, usernameToID, nextId, now, Events, Validator,
          mu, pc, call, pending, smMu, lastOp, fired, resp, middleware,
          dispatched, validated>>

\* ------------------------------------------------------------- registries
Put(f, k, v) == [x \in DOMAIN f \cup {k} |-> IF x = k THEN v ELSE f[x]]
Drop(f, k) == [x \in DOMAIN f \ {k} |-> f[x]]

Hook(name, l, p) == [hook |-> name, lobby |-> l, player |-> p]
Bound == Events # "nil"            \* m.Events != nil && m.Events.<hook> != nil
FireIf(c, h) == IF c THEN <<h>> ELSE <<>>

MgrResult(lobs, err, fs) == [lobbies |-> lobs, err |-> err, fired |-> fs]

PlayerIndex(players, pid) ==
  IF \E i \in 1..Len(players) : players[i].ID = pid
  THEN CHOOSE i \in 1..Len(players) :
         /\ players[i].ID = pid
         /\ \A j \in 1..(i - 1) : players[j].ID # pid
  ELSE 0

HasPlayer(players, pid) == PlayerIndex(players, pid) # 0

\* manager.go: broadcastLobbyState
broadcastLobbyState(lobby, l) ==
  IF ~Bound THEN <<>>
  ELSE <<Hook("broadcastLobbyState", l, NoID)>>
       \o [i \in 1..Len(lobby.Players) |-> Hook("Broadcaster", l, lobby.Players[i].ID)]

\* CreateLobby without the lookup of the id: an existing lobby is replaced.
CreateLobby_Overwrites(lobs, name, maxPlayers, ownerID) ==
  LET lobby == [MaxPlayers |-> maxPlayers, Players |-> <<>>,
                State |-> LobbyWaiting, OwnerID |-> ownerID]
  IN MgrResult(Put(lobs, name, lobby), "",
               FireIf(Bound, Hook("OnLobbyStateChange", name, NoID))
                 \o broadcastLobbyState(lobby, name))

\* manager.go: CreateLobby
CreateLobby(lobs, name, maxPlayers, ownerID) ==
  IF name \in DOMAIN lobs THEN MgrResult(lobs, "lobby already exists", <<>>)
  ELSE LET lobby == [MaxPlayers |-> maxPlayers, Players |-> <<>>,
                     State |-> LobbyWaiting, OwnerID |-> ownerID]
       IN MgrResult(Put(lobs, name, lobby), "",
                    FireIf(Bound, Hook("OnLobbyStateChange", name, NoID))
                    \o broadcastLobbyState(lobby, name))

\* JoinLobby that fires OnLobbyFull on every successful join.
JoinLobby_AlwaysFull(lobs, l, player) ==
  IF l \notin DOMAIN lobs THEN MgrResult(lobs, "lobby does not exist", <<>>)
  ELSE IF Len(lobs[l].Players) >= lobs[l].MaxPlayers
  THEN MgrResult(lobs, "lobby is full", <<>>)
  ELSE IF HasPlayer(lobs[l].Players, player.ID)
  THEN MgrResult(lobs, "player already in lobby", <<>>)
  ELSE LET lobby == [lobs[l] EXCEPT !.Players = Append(@, player)]
       IN MgrResult(Put(lobs, l, lobby), "",
                    FireIf(Bound, Hook("OnPlayerJoin", l, player.ID))
                    \o FireIf(Bound, Hook("OnLobbyFull", l, NoID))
                    \o FireIf(Bound, Hook("OnLobbyStateChange", l, NoID))
                    \o broadcastLobbyState(lobby, l))

\* JoinLobby that looks for the player id before it tests the capacity.
JoinLobby_MemberFirst(lobs, l, player) ==
  IF l \notin DOMAIN lobs THEN MgrResult(lobs, "lobby does not exist", <<>>)
  ELSE IF HasPlayer(lobs[l].Players, player.ID)
  THEN MgrResult(lobs, "player already in lobby", <<>>)
  ELSE IF Len(lobs[l].Players) >= lobs[l].MaxPlayers
  THEN MgrResult(lobs, "lobby is full", <<>>)
  ELSE LET lobby == [lobs[l] EXCEPT !.Players = Append(@, player)]
       IN MgrResult(Put(lobs, l, lobby), "",
                    FireIf(Bound, Hook("OnPlayerJoin", l, player.ID))
                    \o FireIf(Bound /\ Len(lobby.Players) = lobby.MaxPlayers,
                              Hook("OnLobbyFull", l, NoID))
                    \o FireIf(Bound, Hook("OnLobbyStateChange", l, NoID))
                    \o broadcastLobbyState(lobby, l))

\* JoinLobby that broadcasts to the members the lobby had before the join.
JoinLobby_BroadcastsOldMembers(lobs, l, player) ==
  IF l \notin DOMAIN lobs THEN MgrResult(lobs, "lobby does not exist", <<>>)
  ELSE IF Len(lobs[l].Players) >= lobs[l].MaxPlayers
  THEN MgrResult(lobs, "lobby is full", <<>>)
  ELSE IF HasPlayer(lobs[l].Players, player.ID)
  THEN MgrResult(lobs, "player already in lobby", <<>>)
  ELSE LET lobby == [lobs[l] EXCEPT !.Players = Append(@, player)]
       IN MgrResult(Put(lobs, l, lobby), "",
                    FireIf(Bound, Hook("OnPlayerJoin", l, player.ID))
                    \o FireIf(Bound /\ Len(lobby.Players) = lobby.MaxPlayers,
                              Hook("OnLobbyFull", l, NoID))
                    \o FireIf(Bound, Hook("OnLobbyStateChange", l, NoID))
                    \o broadcastLobbyState(lobs[l], l))

\* JoinLobby without the loop that looks for the player id.
JoinLobby_NoMemberCheck(lobs, l, player) ==
  IF l \notin DOMAIN lobs THEN MgrResult(lobs, "lobby does not exist", <<>>)
  ELSE IF Len(lobs[l].Players) >= lobs[l].MaxPlayers
  THEN MgrResult(lobs, "lobby is full", <<>>)
  ELSE LET lobby == [lobs[l] EXCEPT !.Players = Append(@, player)]
       IN MgrResult(Put(lobs, l, lobby), "",
                    FireIf(Bound, Hook("OnPlayerJoin", l, player.ID))
                    \o FireIf(Bound /\ Len(lobby.Players) = lobby.MaxPlayers,
                              Hook("OnLobbyFull", l, NoID))
                    \o FireIf(Bound, Hook("OnLobbyStateChange", l, NoID))
                    \o broadcastLobbyState(lobby, l))

\* manager.go: JoinLobby
JoinLobby(lobs, l, player) ==
  IF l \notin DOMAIN lobs THEN MgrResult(lobs, "lobby does not exist", <<>>)
  ELSE IF Len(lobs[l].Players) >= lobs[l].MaxPlayers
  THEN MgrResult(lobs, "lobby is full", <<>>)
  ELSE IF HasPlayer(lobs[l].Players, player.ID)
  THEN MgrResult(lobs, "player already in lobby", <<>>)
  ELSE LET lobby == [lobs[l] EXCEPT !.Players = Append(@, player)]
       IN MgrResult(Put(lobs, l, lobby), "",
                    FireIf(Bound, Hook("OnPlayerJoin", l, player.ID))
                    \o FireIf(Bound /\ Len(lobby.Players) = lobby.MaxPlayers,
                              Hook("OnLobbyFull", l, NoID))
                    \o FireIf(Bound, Hook("OnLobbyStateChange", l, NoID))
                    \o broadcastLobbyState(lobby, l))

\* manager.go: DeleteLobby
DeleteLobby(lobs, l) ==
  IF l \notin DOMAIN lobs THEN MgrResult(lobs, "lobby does not exist", <<>>)
  ELSE MgrResult(Drop(lobs, l), "", <<>>)

\* LeaveLobby that broadcasts to the members the lobby had before the leave.
LeaveLobby_BroadcastsLeaver(lobs, l, pid) ==
  IF l \notin DOMAIN lobs THEN MgrResult(lobs, "lobby does not exist", <<>>)
  ELSE IF ~HasPlayer(lobs[l].Players, pid)
  THEN MgrResult(lobs, "player not in lobby", <<>>)
  ELSE LET newPlayers == SelectSeq(lobs[l].Players, LAMBDA p : p.ID # pid)
           lobby == [lobs[l] EXCEPT !.Players = newPlayers]
           empty == Len(newPlayers) = 0
       IN MgrResult(IF empty THEN Drop(lobs, l) ELSE Put(lobs, l, lobby), "",
                    FireIf(Bound, Hook("OnPlayerLeave", l, pid))
                    \o FireIf(Bound /\ empty, Hook("OnLobbyEmpty", l, NoID))
                    \o FireIf(Bound, Hook("OnLobbyStateChange", l, NoID))
                    \o broadcastLobbyState(lobs[l], l)
                    \o FireIf(Bound /\ empty, Hook("OnLobbyDeleted", l, NoID)))

\* LeaveLobby that deletes an empty lobby only while it is Waiting.
LeaveLobby_KeepsStarted(lobs, l, pid) ==
  IF l \notin DOMAIN lobs THEN MgrResult(lobs, "lobby does not exist", <<>>)
  ELSE IF ~HasPlayer(lobs[l].Players, pid)
  THEN MgrResult(lobs, "player not in lobby", <<>>)
  ELSE LET newPlayers == SelectSeq(lobs[l].Players, LAMBDA p : p.ID # pid)
           lobby == [lobs[l] EXCEPT !.Players = newPlayers]
           empty == Len(newPlayers) = 0 /\ lobby.State = LobbyWaiting
       IN MgrResult(IF empty THEN Drop(lobs, l) ELSE Put(lobs, l, lobby), "",
                    FireIf(Bound, Hook("OnPlayerLeave", l, pid))
                    \o FireIf(Bound /\ empty, Hook("OnLobbyEmpty", l, NoID))
                    \o FireIf(Bound, Hook("OnLobbyStateChange", l, NoID))
                    \o broadcastLobbyState(lobby, l)
                    \o FireIf(Bound /\ empty, Hook("OnLobbyDeleted", l, NoID)))

\* manager.go: LeaveLobby
LeaveLobby(lobs, l, pid) ==
  IF l \notin DOMAIN lobs THEN MgrResult(lobs, "lobby does not exist", <<>>)
  ELSE IF ~HasPlayer(lobs[l].Players, pid)
  THEN MgrResult(lobs, "player not in lobby", <<>>)
  ELSE LET newPlayers == SelectSeq(lobs[l].Players, LAMBDA p : p.ID # pid)
           lobby == [lobs[l] EXCEPT !.Players = newPlayers]
           empty == Len(newPlayers) = 0
       IN MgrResult(IF empty THEN Drop(lobs, l) ELSE Put(lobs, l, lobby), "",
                    FireIf(Bound, Hook("OnPlayerLeave", l, pid))
                    \o FireIf(Bound /\ empty, Hook("OnLobbyEmpty", l, NoID))
                    \o FireIf(Bound, Hook("OnLobbyStateChange", l, NoID))
                    \o broadcastLobbyState(lobby, l)
                    \o FireIf(Bound /\ empty, Hook("OnLobbyDeleted", l, NoID)))

\* SetPlayerReady without the "No change" early return.
SetPlayerReady_NoChangeCheck(lobs, l, pid, ready) ==
  IF l \notin DOMAIN lobs THEN MgrResult(lobs, "lobby does not exist", <<>>)
  ELSE IF ~HasPlayer(lobs[l].Players, pid)
  THEN MgrResult(lobs, "player not in lobby", <<>>)
  ELSE LET i == PlayerIndex(lobs[l].Players, pid)
           lobby == [lobs[l] EXCEPT !.Players[i].Ready = ready]
       IN MgrResult(Put(lobs, l, lobby), "",
                    FireIf(Bound, Hook("OnPlayerReady", l, pid))
                    \o FireIf(Bound, Hook("OnLobbyStateChange", l, NoID))
                    \o broadcastLobbyState(lobby, l))

\* manager.go: SetPlayerReady
SetPlayerReady(lobs, l, pid, ready) ==
  IF l \notin DOMAIN lobs THEN MgrResult(lobs, "lobby does not exist", <<>>)
  ELSE IF ~HasPlayer(lobs[l].Players, pid)
  THEN MgrResult(lobs, "player not in lobby", <<>>)
  ELSE LET i == PlayerIndex(lobs[l].Players, pid) IN
       IF lobs[l].Players[i].Ready = ready THEN MgrResult(lobs, "", <<>>)
       ELSE LET lobby == [lobs[l] EXCEPT !.Players[i].Ready = ready]
            IN MgrResult(Put(lobs, l, lobby), "",
                         FireIf(Bound, Hook("OnPlayerReady", l, pid))
                         \o FireIf(Bound, Hook("OnLobbyStateChange", l, NoID))
                         \o broadcastLobbyState(lobby, l))

\* manager.go: SetLobbyState
SetLobbyState(lobs, l, state) ==
  IF l \notin DOMAIN lobs THEN MgrResult(lobs, "lobby does not exist", <<>>)
  ELSE IF lobs[l].State = state THEN MgrResult(lobs, "", <<>>)
  ELSE LET lobby == [lobs[l] EXCEPT !.State = state]
       IN MgrResult(Put(lobs, l, lobby), "",
                    FireIf(Bound, Hook("OnLobbyStateChange", l, NoID))
                    \o broadcastLobbyState(lobby, l))

\* The application's CanStartGame hook, when one is plugged in ("custom"):
\* here it lets any current member of the lobby start the game.
CanStartGame(lobby, userID) == HasPlayer(lobby.Players, userID)

\* A permission check that lets every requester through.
canStart_Anyone(lobby, userID) == TRUE

\* manager.go: StartGame, "Check permission"
canStart(lobby, userID) ==
  IF Events = "custom" THEN CanStartGame(lobby, userID)
  ELSE lobby.OwnerID = userID

\* manager.go: StartGame
StartGame(lobs, l, userID) ==
  IF l \notin DOMAIN lobs THEN MgrResult(lobs, "lobby does not exist", <<>>)
  ELSE IF ~canStart(lobs[l], userID)
  THEN MgrResult(lobs, "not allowed to start the game", <<>>)
  ELSE IF lobs[l].State = LobbyInGame
  THEN MgrResult(lobs, "game already started", <<>>)
  ELSE LET lobby == [lobs[l] EXCEPT !.State = LobbyInGame]
       IN MgrResult(Put(lobs, l, lobby), "",
                    FireIf(Bound, Hook("OnLobbyStateChange", l, NoID))
                    \o broadcastLobbyState(lobby, l))

\* manager.go: GetLobbyByID, ListLobbies
GetLobbyByID(lobs, l) == l \in DOMAIN lobs
ListLobbies(lobs) == DOMAIN lobs

\* ------------------------------------------------------------- session.go
\* The SessionManager as a value: sm.sessions, sm.usernameToID and sm.nextId.
\* GenerateUserID and GenerateSecureToken draw 8 and 32 random bytes; the
\* k-th draw is modelled as the fresh value k (no collisions).
SM == [sessions |-> sessions, usernameToID |-> usernameToID, nextId |-> nextId]
SessResult(sm, ok, id) == [sm |-> sm, ok |-> ok, id |-> id]

GenerateUserID(sm) == sm.nextId + 1
GenerateSecureToken(sm) == sm.nextId + 1

\* session.go: CreateSession
CreateSession(sm, username) ==
  LET userID == GenerateUserID(sm)
      session == [Username |-> username, Token |-> GenerateSecureToken(sm),
                  Active |-> TRUE, LobbyID |-> NoLobby, LastSeen |-> now]
  IN SessResult([sessions |-> Put(sm.sessions, userID, session),
                 usernameToID |-> Put(sm.usernameToID, username, userID),
                 nextId |-> sm.nextId + 1], TRUE, userID)

Touch(sm, userID) ==
  [sm EXCEPT !.sessions = [@ EXCEPT ![userID].LastSeen = now]]

\* ValidateSessionToken without the comparison of the token.
ValidateSessionToken_AnyToken(sm, username, token) ==
  IF username \notin DOMAIN sm.usernameToID THEN SessResult(sm, FALSE, NoID)
  ELSE LET userID == sm.usernameToID[username] IN
       IF userID \notin DOMAIN sm.sessions \/ ~sm.sessions[userID].Active
       THEN SessResult(sm, FALSE, NoID)
       ELSE SessResult(Touch(sm, userID), TRUE, userID)

\* ValidateSessionToken without the session.Active test.
ValidateSessionToken_IgnoresActive(sm, username, token) ==
  IF username \notin DOMAIN sm.usernameToID THEN SessResult(sm, FALSE, NoID)
  ELSE LET userID == sm.usernameToID[username] IN
       IF userID \notin DOMAIN sm.sessions
       THEN SessResult(sm, FALSE, NoID)
       ELSE IF sm.sessions[userID].Token # token THEN SessResult(sm, FALSE, NoID)
       ELSE SessResult(Touch(sm, userID), TRUE, userID)

\* session.go: ValidateSessionToken
ValidateSessionToken(sm, username, token) ==
  IF username \notin DOMAIN sm.usernameToID THEN SessResult(sm, FALSE, NoID)
  ELSE LET userID == sm.usernameToID[username] IN
       IF userID \notin DOMAIN sm.sessions \/ ~sm.sessions[userID].Active
       THEN SessResult(sm, FALSE, NoID)
       ELSE IF sm.sessions[userID].Token # token THEN SessResult(sm, FALSE, NoID)
       ELSE SessResult(Touch(sm, userID), TRUE, userID)

\* ReconnectSession keyed on the username alone (no token comparison).
ReconnectSession_ByUsername(sm, username, token) ==
  IF username \notin DOMAIN sm.usernameToID THEN SessResult(sm, FALSE, NoID)
  ELSE LET userID == sm.usernameToID[username] IN
       IF userID \notin DOMAIN sm.sessions THEN SessResult(sm, FALSE, NoID)
       ELSE SessResult([sm EXCEPT !.sessions =
                          [@ EXCEPT ![userID].Active = TRUE,
                                    ![userID].LastSeen = now]], TRUE, userID)

\* session.go: ReconnectSession
ReconnectSession(sm, username, token) ==
  IF username \notin DOMAIN sm.usernameToID THEN SessResult(sm, FALSE, NoID)
  ELSE LET userID == sm.usernameToID[username] IN
       IF userID \notin DOMAIN sm.sessions THEN SessResult(sm, FALSE, NoID)
       ELSE IF sm.sessions[userID].Token # token THEN SessResult(sm, FALSE, NoID)
       ELSE SessResult([sm EXCEPT !.sessions =
                          [@ EXCEPT ![userID].Active = TRUE,
                                    ![userID].LastSeen = now]], TRUE, userID)

\* session.go: GetSessionByID
GetSessionByID(sm, userID) ==
  IF userID \notin DOMAIN sm.sessions THEN SessResult(sm, FALSE, NoID)
  ELSE IF sm.sessions[userID].Active THEN SessResult(Touch(sm, userID), TRUE, userID)
  ELSE SessResult(sm, TRUE, userID)

\* session.go: RemoveSession
RemoveSession(sm, userID) ==
  IF userID \in DOMAIN sm.sessions /\ sm.sessions[userID].Active
  THEN [sm EXCEPT !.sessions = [@ EXCEPT ![userID].Active = FALSE]]
  ELSE sm

\* session.go: ForceRemoveSession
ForceRemoveSession(sm, userID) ==
  IF userID \in DOMAIN sm.sessions
  THEN [sm EXCEPT !.sessions = [@ EXCEPT ![userID].Active = FALSE]]
  ELSE sm

\* session.go: IsUsernameTaken
IsUsernameTaken(sm, username) ==
  /\ username \in DOMAIN sm.usernameToID
  /\ sm.usernameToID[username] \in DOMAIN sm.sessions
  /\ sm.sessions[sm.usernameToID[username]].Active

\* session.go: SetLobbyID
SetLobbyID(sm, userID, lobbyID) ==
  IF userID \in DOMAIN sm.sessions
  THEN [sm EXCEPT !.sessions = [@ EXCEPT ![userID].LobbyID = lobbyID]]
  ELSE sm

\* session.go: ClearLobbyID
ClearLobbyID(sm, userID) ==
  IF userID \in DOMAIN sm.sessions
  THEN [sm EXCEPT !.sessions = [@ EXCEPT ![userID].LobbyID = NoLobby]]
  ELSE sm

\* session.go: CleanupStaleSessions.  Every stale session is deleted from
\* sessions, and the index entry of its username is deleted whichever
\* session that entry names; the map's iteration order does not matter.
CleanupStaleSessions(sm, maxAge) ==
  LET stale == {id \in DOMAIN sm.sessions :
                  /\ ~sm.sessions[id].Active
                  /\ now - sm.sessions[id].LastSeen > maxAge}
      names == {sm.sessions[id].Username : id \in stale}
  IN [sm EXCEPT !.sessions = [id \in DOMAIN sm.sessions \ stale |-> sm.sessions[id]],
                !.usernameToID = [u \in DOMAIN sm.usernameToID \ names |-> sm.usernameToID[u]]]


\* player.go: Player, as the callers of the manager build it
NewPlayer(id, username) == [ID |-> id, Username |-> username, Ready |-> FALSE]

\* ------------------------------------------------------------ handlers.go
\* A handler is one request: the registry calls it makes, in the order of
\* its code, and the messages it writes to the requesting connection.
Msg(action, code, userID, username, token, lobbyID, players, state) ==
  [action |-> action, code |-> code, user_id |-> userID, username |-> username,
   token |-> token, lobby_id |-> lobbyID, players |-> players, state |-> state]

\* errors.go: LobbyError.ToErrorResponse
ErrorResponse(code) == Msg("error", code, NoID, "", NoToken, NoLobby, <<>>, "")

\* types.go: RegisterUserResponse
RegisterUserResponse(sm, userID) ==
  Msg("user_registered", "", userID, sm.sessions[userID].Username,
      sm.sessions[userID].Token, NoLobby, <<>>, "")

\* A nil dereference or a call of a nil func: the handler stops there and
\* writes nothing more.
Panicked == Msg("panic", "", NoID, "", NoToken, NoLobby, <<>>, "")

\* responses.go: lobbyStateString
lobbyStateString(state) ==
  CASE state = LobbyWaiting -> "waiting"
    [] state = LobbyInGame -> "in_game"
    [] state = LobbyFinished -> "finished"
    [] OTHER -> "unknown"

\* responses.go: BuildLobbyStateResponse (reads rb.manager.Events.CanStartGame)
BuildLobbyStateResponse(lobby, l) ==
  IF Events = "nil" THEN Panicked
  ELSE Msg("lobby_state", "", NoID, "", NoToken, l,
           [i \in 1..Len(lobby.Players) |->
              [user_id |-> lobby.Players[i].ID,
               username |-> lobby.Players[i].Username,
               ready |-> lobby.Players[i].Ready,
               can_start_game |-> canStart(lobby, lobby.Players[i].ID)]],
           lobbyStateString(lobby.State))

HandlerResult(lobs, sm, rs, fs) ==
  [lobbies |-> lobs, sm |-> sm, resp |-> rs, fired |-> fs]

\* handlers.go: validateSessionToken
validateSessionToken(sm, userID, token) ==
  LET g == GetSessionByID(sm, userID) IN
  IF ~g.ok \/ ~g.sm.sessions[userID].Active
  THEN [sm |-> g.sm, code |-> "USER_INACTIVE"]
  ELSE IF g.sm.sessions[userID].Token # token
  THEN [sm |-> g.sm, code |-> "INVALID_TOKEN"]
  ELSE [sm |-> g.sm, code |-> ""]

\* A reconnection that answers user_registered and restores nothing.
RestoreMembership_RegisterOnly(lobs, sm, userID, username) ==
  HandlerResult(lobs, sm, <<RegisterUserResponse(sm, userID)>>, <<>>)

\* handlers.go: RegisterUserHandler, "Restore lobby membership"
RestoreMembership(lobs, sm, userID, username) ==
  LET l == sm.sessions[userID].LobbyID
      reg == RegisterUserResponse(sm, userID)
  IN IF l = NoLobby THEN HandlerResult(lobs, sm, <<reg>>, <<>>)
     ELSE IF ~GetLobbyByID(lobs, l)
     THEN HandlerResult(lobs, ClearLobbyID(sm, userID), <<reg>>, <<>>)
     ELSE IF \E i \in 1..Len(lobs[l].Players) : lobs[l].Players[i].Username = username
     THEN HandlerResult(lobs, sm, <<reg, BuildLobbyStateResponse(lobs[l], l)>>, <<>>)
     ELSE LET j == JoinLobby(lobs, l, NewPlayer(userID, sm.sessions[userID].Username))
          IN IF j.err = ""
             THEN HandlerResult(j.lobbies, sm,
                                <<reg, BuildLobbyStateResponse(j.lobbies[l], l)>>, j.fired)
             ELSE HandlerResult(lobs, ClearLobbyID(sm, userID), <<reg>>, <<>>)

\* handlers.go: RegisterUserHandler
RegisterUserHandler(lobs, sm, username, token) ==
  IF token # NoToken
  THEN LET v == ValidateSessionToken(sm, username, token)
           r == IF v.ok THEN v ELSE ReconnectSession(sm, username, token)
       IN IF r.ok THEN RestoreMembership(lobs, r.sm, r.id, username)
          ELSE HandlerResult(lobs, sm, <<ErrorResponse("INVALID_TOKEN")>>, <<>>)
  ELSE IF IsUsernameTaken(sm, username)
  THEN HandlerResult(lobs, sm, <<ErrorResponse("USERNAME_TAKEN")>>, <<>>)
  ELSE LET c == CreateSession(sm, username)
       IN HandlerResult(lobs, c.sm, <<RegisterUserResponse(c.sm, c.id)>>, <<>>)

\* handlers.go: CreateLobbyHandler
CreateLobbyHandler(lobs, sm, name, maxPlayers, userID, token) ==
  LET v == validateSessionToken(sm, userID, token) IN
  IF v.code # "" THEN HandlerResult(lobs, v.sm, <<ErrorResponse(v.code)>>, <<>>)
  ELSE LET c == CreateLobby(lobs, name, maxPlayers, userID) IN
  IF c.err # "" THEN HandlerResult(lobs, v.sm, <<ErrorResponse("INTERNAL_ERROR")>>, <<>>)
  ELSE LET j == JoinLobby(c.lobbies, name, NewPlayer(userID, v.sm.sessions[userID].Username)) IN
  IF j.err # ""
  THEN HandlerResult(c.lobbies, v.sm, <<ErrorResponse("INTERNAL_ERROR")>>, c.fired)
  ELSE HandlerResult(j.lobbies, SetLobbyID(v.sm, userID, name),
                     <<BuildLobbyStateResponse(j.lobbies[name], name)>>,
                     c.fired \o j.fired)

\* handlers.go: JoinLobbyHandler
JoinLobbyHandler(lobs, sm, l, userID, token) ==
  LET v == validateSessionToken(sm, userID, token) IN
  IF v.code # "" THEN HandlerResult(lobs, v.sm, <<ErrorResponse(v.code)>>, <<>>)
  ELSE LET j == JoinLobby(lobs, l, NewPlayer(userID, v.sm.sessions[userID].Username)) IN
  IF j.err # "" THEN HandlerResult(lobs, v.sm, <<ErrorResponse("INTERNAL_ERROR")>>, <<>>)
  ELSE HandlerResult(j.lobbies, SetLobbyID(v.sm, userID, l),
                     <<BuildLobbyStateResponse(j.lobbies[l], l)>>, j.fired)

\* handlers.go: LeaveLobbyHandler
LeaveLobbyHandler(lobs, sm, l, userID, token) ==
  LET v == validateSessionToken(sm, userID, token) IN
  IF v.code # "" THEN HandlerResult(lobs, v.sm, <<ErrorResponse(v.code)>>, <<>>)
  ELSE LET r == LeaveLobby(lobs, l, userID) IN
  IF r.err # "" THEN HandlerResult(lobs, v.sm, <<ErrorResponse("INTERNAL_ERROR")>>, <<>>)
  ELSE HandlerResult(r.lobbies, ClearLobbyID(v.sm, userID),
                     <<Msg("left_lobby", "", NoID, "", NoToken, l, <<>>, "")>>, r.fired)

\* handlers.go: SetReadyHandler
SetReadyHandler(lobs, sm, l, userID, token, ready) ==
  LET v == validateSessionToken(sm, userID, token) IN
  IF v.code # "" THEN HandlerResult(lobs, v.sm, <<ErrorResponse(v.code)>>, <<>>)
  ELSE LET r == SetPlayerReady(lobs, l, userID, ready) IN
  IF r.err # "" THEN HandlerResult(lobs, v.sm, <<ErrorResponse("INTERNAL_ERROR")>>, <<>>)
  ELSE HandlerResult(r.lobbies, v.sm,
                     IF GetLobbyByID(r.lobbies, l)
                     THEN <<BuildLobbyStateResponse(r.lobbies[l], l)>> ELSE <<>>,
                     r.fired)

\* manager.go: GameStartConfig, DefaultGameStartConfig
DefaultGameStartConfig ==
  [MinPlayers |-> 2, RequireAllReady |-> TRUE, RequireOwnerOnly |-> FALSE]

\* A GameStartConfig that sets RequireOwnerOnly ("only owner can start")
OwnerOnlyConfig ==
  [MinPlayers |-> 2, RequireAllReady |-> TRUE, RequireOwnerOnly |-> TRUE]

\* The configuration the router's validator was built from.
GameStartConfig ==
  IF Validator = "owner" THEN OwnerOnlyConfig ELSE DefaultGameStartConfig

\* session.go: GenerateUserID, hex.EncodeToString: the id as the string it is
HexID(id) ==
  IF id \in 1..9 THEN <<"01", "02", "03", "04", "05", "06", "07", "08", "09">>[id]
  ELSE ""

\* l.OwnerID != username compares the owner's session id, a string of hex
\* digits, with the string the caller passed.
SameString(id, username) == HexID(id) = username

\* ConfigurableGameStartValidator without the search for the requester
ConfigurableGameStartValidator_AnyRequester(config, lobby, username) ==
  IF lobby.State # LobbyWaiting THEN "lobby is not in waiting state"
  ELSE IF Len(lobby.Players) < config.MinPlayers THEN "need at least MinPlayers players"
  ELSE IF config.RequireAllReady
          /\ \E i \in 1..Len(lobby.Players) : ~lobby.Players[i].Ready
  THEN "all players must be ready to start the game"
  ELSE IF config.RequireOwnerOnly /\ ~SameString(lobby.OwnerID, username)
  THEN "only the lobby owner can start the game"
  ELSE ""

\* manager.go: ConfigurableGameStartValidator; "" is a nil error.
ConfigurableGameStartValidator(config, lobby, username) ==
  IF lobby.State # LobbyWaiting THEN "lobby is not in waiting state"
  ELSE IF Len(lobby.Players) < config.MinPlayers THEN "need at least MinPlayers players"
  ELSE IF config.RequireAllReady
          /\ \E i \in 1..Len(lobby.Players) : ~lobby.Players[i].Ready
  THEN "all players must be ready to start the game"
  ELSE IF config.RequireOwnerOnly /\ ~SameString(lobby.OwnerID, username)
  THEN "only the lobby owner can start the game"
  ELSE IF ~\E i \in 1..Len(lobby.Players) : lobby.Players[i].Username = username
  THEN "player not found in lobby"
  ELSE ""

\* ConfigurableGameStartValidator's first lines: a *GameStartConfig is <<>>
\* (nil) or <<config>>.
ConfigOrDefault(config) ==
  IF config = <<>> THEN DefaultGameStartConfig ELSE config[1]

\* StartGameHandler answering a successful start with a lobby_state.
StartGameHandler_Acknowledges(lobs, sm, l, userID, token) ==
  LET v == validateSessionToken(sm, userID, token) IN
  IF v.code # "" THEN HandlerResult(lobs, v.sm, <<ErrorResponse(v.code)>>, <<>>)
  ELSE IF ~GetLobbyByID(lobs, l)
  THEN HandlerResult(lobs, v.sm, <<ErrorResponse("LOBBY_NOT_FOUND")>>, <<>>)
  ELSE IF Validator = "nil" THEN HandlerResult(lobs, v.sm, <<Panicked>>, <<>>)
  ELSE IF Validator \in {"default", "owner"}
          /\ ConfigurableGameStartValidator(GameStartConfig, lobs[l],
                                            v.sm.sessions[userID].Username) # ""
  THEN HandlerResult(lobs, v.sm, <<ErrorResponse("CANNOT_START_GAME")>>, <<>>)
  ELSE LET r == StartGame(lobs, l, userID) IN
  IF r.err # "" THEN HandlerResult(lobs, v.sm, <<ErrorResponse("INTERNAL_ERROR")>>, <<>>)
  ELSE HandlerResult(r.lobbies, v.sm, <<BuildLobbyStateResponse(r.lobbies[l], l)>>, r.fired)

\* handlers.go: StartGameHandler.  Validator is the validateGameStart the
\* router was set up with: "nil" (SetupDefaultHandlers), "accept"
\* (SetupDefaultHandlersWithCustom without a validator), "default"
\* (ConfigurableGameStartValidator(nil)) or "owner"
\* (ConfigurableGameStartValidator of a configuration with RequireOwnerOnly).
StartGameHandler(lobs, sm, l, userID, token) ==
  LET v == validateSessionToken(sm, userID, token) IN
  IF v.code # "" THEN HandlerResult(lobs, v.sm, <<ErrorResponse(v.code)>>, <<>>)
  ELSE IF ~GetLobbyByID(lobs, l)
  THEN HandlerResult(lobs, v.sm, <<ErrorResponse("LOBBY_NOT_FOUND")>>, <<>>)
  ELSE IF Validator = "nil" THEN HandlerResult(lobs, v.sm, <<Panicked>>, <<>>)
  ELSE IF Validator \in {"default", "owner"}
          /\ ConfigurableGameStartValidator(GameStartConfig, lobs[l],
                                            v.sm.sessions[userID].Username) # ""
  THEN HandlerResult(lobs, v.sm, <<ErrorResponse("CANNOT_START_GAME")>>, <<>>)
  ELSE LET r == StartGame(lobs, l, userID) IN
  IF r.err # "" THEN HandlerResult(lobs, v.sm, <<ErrorResponse("INTERNAL_ERROR")>>, <<>>)
  ELSE HandlerResult(r.lobbies, v.sm, <<>>, r.fired)

\* handlers.go: LogoutHandler, the loop over ListLobbies(); order is the
\* order in which the snapshot lists the lobbies.
RECURSIVE LeaveAll(_, _, _)
LeaveAll(lobs, order, userID) ==
  IF order = <<>> THEN MgrResult(lobs, "", <<>>)
  ELSE LET l == Head(order)
           r == IF l \in DOMAIN lobs /\ HasPlayer(lobs[l].Players, userID)
                THEN LeaveLobby(lobs, l, userID)
                ELSE MgrResult(lobs, "", <<>>)
           rest == LeaveAll(r.lobbies, Tail(order), userID)
       IN MgrResult(rest.lobbies, "", r.fired \o rest.fired)

\* LogoutHandler without the call of ClearLobbyID
LogoutHandler_KeepsLobbyID(lobs, sm, userID, order) ==
  LET r == LeaveAll(lobs, order, userID)
  IN HandlerResult(r.lobbies, RemoveSession(sm, userID), <<>>, r.fired)

\* handlers.go: LogoutHandler
LogoutHandler(lobs, sm, userID, order) ==
  LET r == LeaveAll(lobs, order, userID)
  IN HandlerResult(r.lobbies, RemoveSession(ClearLobbyID(sm, userID), userID),
                   <<>>, r.fired)

\* responses.go: BuildLobbyListResponse; order is the order in which the
\* snapshot of ListLobbies() lists the lobbies.
BuildLobbyListResponse(order) ==
  [action |-> "lobby_list", code |-> "", user_id |-> NoID, username |-> "",
   token |-> NoToken, lobby_id |-> NoLobby, players |-> <<>>, state |-> "",
   lobbies |-> order]

\* responses.go: BuildLobbyInfoResponse (Name, MaxPlayers and Public are
\* copied from the lobby and left out here)
BuildLobbyInfoResponse(lobby, l) ==
  Msg("lobby_info", "", NoID, "", NoToken, l,
      [i \in 1..Len(lobby.Players) |->
         [user_id |-> lobby.Players[i].ID,
          username |-> lobby.Players[i].Username,
          ready |-> lobby.Players[i].Ready,
          can_start_game |-> FALSE]],
      lobbyStateString(lobby.State))

\* handlers.go: ListLobbiesHandler
ListLobbiesHandler(lobs, sm, order) ==
  HandlerResult(lobs, sm, <<BuildLobbyListResponse(order)>>, <<>>)

\* handlers.go: GetLobbyInfoHandler.  SetupDefaultHandlers passes nil as
\* lobbyInfoResponseFromLobby, SetupDefaultHandlersWithCustom passes
\* BuildLobbyInfoResponse.
GetLobbyInfoHandler(lobs, sm, l) ==
  IF ~GetLobbyByID(lobs, l)
  THEN HandlerResult(lobs, sm, <<ErrorResponse("LOBBY_NOT_FOUND")>>, <<>>)
  ELSE IF Validator = "nil" THEN HandlerResult(lobs, sm, <<Panicked>>, <<>>)
  ELSE HandlerResult(lobs, sm, <<BuildLobbyInfoResponse(lobs[l], l)>>, <<>>)

\* ------------------------------------------------- calls on the LobbyManager
Op(op, l, id, username, token, val, err) ==
  [op |-> op, lobby |-> l, id |-> id, username |-> username,
   token |-> token, val |-> val, err |-> err]

NameOf(id) == IF id % 2 = 1 THEN "alice" ELSE "bob"

MgrStep(r, op) ==
  /\ lobbies' = r.lobbies
  /\ fired' = r.fired
  /\ lastOp' = op
  /\ UNCHANGED <<sessions, usernameToID, nextId, now, Events, Validator, resp>>
  /\ UNCHANGED goroutines
  /\ UNCHANGED router

CallCreateLobby ==
  \E name \in MgrNames, maxPlayers \in MaxPlayersValues, owner \in MgrPlayers :
    LET r == CreateLobby(lobbies, name, maxPlayers, owner)
    IN MgrStep(r, Op("CreateLobby", name, owner, "", NoToken, maxPlayers, r.err))

CallJoinLobby ==
  \E l \in MgrNames, id \in MgrPlayers :
    LET r == JoinLobby(lobbies, l, NewPlayer(id, NameOf(id)))
    IN MgrStep(r, Op("JoinLobby", l, id, "", NoToken, 0, r.err))

CallLeaveLobby ==
  \E l \in MgrNames, id \in MgrPlayers :
    LET r == LeaveLobby(lobbies, l, id)
        before == IF l \in DOMAIN lobbies THEN lobbies[l].State ELSE NoState
    IN MgrStep(r, Op("LeaveLobby", l, id, "", NoToken, before, r.err))

CallSetPlayerReady ==
  \E l \in MgrNames, id \in MgrPlayers, ready \in BOOLEAN :
    LET r == SetPlayerReady(lobbies, l, id, ready)
    IN MgrStep(r, Op("SetPlayerReady", l, id, "", NoToken, ready, r.err))

CallSetLobbyState ==
  \E l \in MgrNames, state \in LobbyStates :
    LET r == SetLobbyState(lobbies, l, state)
    IN MgrStep(r, Op("SetLobbyState", l, NoID, "", NoToken, state, r.err))

CallStartGame ==
  \E l \in MgrNames, id \in MgrPlayers :
    LET r == StartGame(lobbies, l, id)
    IN MgrStep(r, Op("StartGame", l, id, "", NoToken, 0, r.err))

\* ------------------------------------------------ requests and session calls
RespCode(rs) ==
  IF rs = <<>> THEN ""
  ELSE IF rs[Len(rs)].action = "error" THEN rs[Len(rs)].code
  ELSE IF rs[Len(rs)].action = "panic" THEN "panic"
  ELSE ""

\* The orders in which a range over the map m.lobbies can list the lobbies.
Orders(S) ==
  {o \in [1..Cardinality(S) -> S] : \A i, j \in DOMAIN o : o[i] = o[j] => i = j}

\* Tokens a client can put in a request: none, one it made up, one issued.
TokenInputs == {NoToken, BogusToken} \cup 1..nextId

HandlerStep(r, op) ==
  /\ lobbies' = r.lobbies
  /\ sessions' = r.sm.sessions
  /\ usernameToID' = r.sm.usernameToID
  /\ nextId' = r.sm.nextId
  /\ fired' = r.fired
  /\ resp' = r.resp
  /\ lastOp' = op
  /\ UNCHANGED <<now, Events, Validator>>
  /\ UNCHANGED goroutines
  /\ UNCHANGED router

SessStep(sm, op) ==
  /\ sessions' = sm.sessions
  /\ usernameToID' = sm.usernameToID
  /\ nextId' = sm.nextId
  /\ fired' = <<>>
  /\ resp' = <<>>
  /\ lastOp' = op
  /\ UNCHANGED <<lobbies, now, Events, Validator>>
  /\ UNCHANGED goroutines
  /\ UNCHANGED router

\* Which branch of RegisterUserHandler a request takes (kept in lastOp.val).
RegisterPath(sm, username, token) ==
  IF token = NoToken
  THEN IF IsUsernameTaken(sm, username) THEN "taken" ELSE "created"
  ELSE IF username \in DOMAIN sm.usernameToID
          /\ sm.usernameToID[username] \in DOMAIN sm.sessions
          /\ sm.sessions[sm.usernameToID[username]].Token = token
  THEN IF sm.sessions[sm.usernameToID[username]].Active
       THEN "validated" ELSE "reconnected"
  ELSE "refused"

\* Tokens a caller of the SessionManager can pass: the token of a stored
\* session, or a string that is no stored session's token.
StoredTokens == {BogusToken} \cup {sessions[id].Token : id \in DOMAIN sessions}

\* register_user on the session registry alone (no lobby was ever created)
SessRegisterUser ==
  \E username \in Usernames, token \in {NoToken} \cup StoredTokens :
    LET r == RegisterUserHandler(lobbies, SM, username, token)
    IN /\ r.sm.nextId <= MaxSessions
       /\ HandlerStep(r, Op("register_user", NoLobby, NoID, username, token,
                            RegisterPath(SM, username, token), RespCode(r.resp)))

SessLogout ==
  \E userID \in UserIDs, order \in Orders(DOMAIN lobbies) :
    LET r == LogoutHandler(lobbies, SM, userID, order)
    IN HandlerStep(r, Op("logout", NoLobby, userID, "", NoToken, 0, RespCode(r.resp)))

\* cmd/example/main.go: the read loop ends, sessionManager.RemoveSession(userID)
Disconnect ==
  \E userID \in DOMAIN sessions :
    SessStep(RemoveSession(SM, userID),
             Op("disconnect", NoLobby, userID, "", NoToken, 0, ""))

CallReconnectSession ==
  \E username \in Usernames, token \in StoredTokens :
    LET r == ReconnectSession(SM, username, token)
    IN SessStep(r.sm, Op("ReconnectSession", NoLobby, r.id, username, token, 0,
                         IF r.ok THEN "" ELSE "false"))

CallValidateSessionToken ==
  \E username \in Usernames, token \in StoredTokens :
    LET r == ValidateSessionToken(SM, username, token)
    IN SessStep(r.sm, Op("ValidateSessionToken", NoLobby, r.id, username, token, 0,
                         IF r.ok THEN "" ELSE "false"))

CallCleanupStaleSessions ==
  \E maxAge \in 0..MaxTime :
    LET sm == CleanupStaleSessions(SM, maxAge)
    IN SessStep(sm, Op("CleanupStaleSessions", NoLobby, NoID, "", NoToken, maxAge, ""))

\* time passes
Tick ==
  /\ now < MaxTime
  /\ now' = now + 1
  /\ lastOp' = Op("tick", NoLobby, NoID, "", NoToken, 0, "")
  /\ fired' = <<>>
  /\ resp' = <<>>
  /\ UNCHANGED <<lobbies, sessions, usernameToID, nextId, Events, Validator>>
  /\ UNCHANGED goroutines
  /\ UNCHANGED router


\* ------------------------------------------------ requests through handlers
MaxUsers == 2                              \* sessions the clients register
ReqNames == {"Room"}                       \* lobby names the clients use
ReqUserIDs == 1..MaxUsers

ReqRegisterUser ==
  \E username \in Usernames, token \in TokenInputs :
    LET r == RegisterUserHandler(lobbies, SM, username, token)
    IN /\ r.sm.nextId <= MaxUsers
       /\ HandlerStep(r, Op("register_user", NoLobby, NoID, username, token,
                            RegisterPath(SM, username, token), RespCode(r.resp)))

ReqCreateLobby ==
  \E name \in ReqNames, maxPlayers \in MaxPlayersValues,
     userID \in ReqUserIDs, token \in TokenInputs :
    LET r == CreateLobbyHandler(lobbies, SM, name, maxPlayers, userID, token)
    IN HandlerStep(r, Op("create_lobby", name, userID, "", token, maxPlayers,
                         RespCode(r.resp)))

ReqJoinLobby ==
  \E l \in ReqNames, userID \in ReqUserIDs, token \in TokenInputs :
    LET r == JoinLobbyHandler(lobbies, SM, l, userID, token)
    IN HandlerStep(r, Op("join_lobby", l, userID, "", token, 0, RespCode(r.resp)))

ReqLeaveLobby ==
  \E l \in ReqNames, userID \in ReqUserIDs, token \in TokenInputs :
    LET r == LeaveLobbyHandler(lobbies, SM, l, userID, token)
    IN HandlerStep(r, Op("leave_lobby", l, userID, "", token, 0, RespCode(r.resp)))

ReqSetReady ==
  \E l \in ReqNames, userID \in ReqUserIDs, token \in TokenInputs, ready \in BOOLEAN :
    LET r == SetReadyHandler(lobbies, SM, l, userID, token, ready)
    IN HandlerStep(r, Op("set_ready", l, userID, "", token, ready, RespCode(r.resp)))

ReqStartGame ==
  \E l \in ReqNames, userID \in ReqUserIDs, token \in TokenInputs :
    LET r == StartGameHandler(lobbies, SM, l, userID, token)
    IN HandlerStep(r, Op("start_game", l, userID, "", token, 0, RespCode(r.resp)))

ReqLogout ==
  \E userID \in ReqUserIDs, order \in Orders(DOMAIN lobbies) :
    LET r == LogoutHandler(lobbies, SM, userID, order)
    IN HandlerStep(r, Op("logout", NoLobby, userID, "", NoToken, 0, RespCode(r.resp)))


\* --------------------------------- clients that present their own session
\* A client sends the user_id and token it was given by register_user.
ClientCreateLobby ==
  \E userID \in DOMAIN sessions, name \in ReqNames, maxPlayers \in MaxPlayersValues :
    LET token == sessions[userID].Token
        r == CreateLobbyHandler(lobbies, SM, name, maxPlayers, userID, token)
    IN HandlerStep(r, Op("create_lobby", name, userID, "", token, maxPlayers,
                         RespCode(r.resp)))

ClientJoinLobby ==
  \E userID \in DOMAIN sessions, l \in ReqNames :
    LET token == sessions[userID].Token
        r == JoinLobbyHandler(lobbies, SM, l, userID, token)
    IN HandlerStep(r, Op("join_lobby", l, userID, "", token, 0, RespCode(r.resp)))

ClientLeaveLobby ==
  \E userID \in DOMAIN sessions, l \in ReqNames :
    LET token == sessions[userID].Token
        r == LeaveLobbyHandler(lobbies, SM, l, userID, token)
    IN HandlerStep(r, Op("leave_lobby", l, userID, "", token, 0, RespCode(r.resp)))

ClientLogout ==
  \E userID \in DOMAIN sessions, order \in Orders(DOMAIN lobbies) :
    LET r == LogoutHandler(lobbies, SM, userID, order)
    IN HandlerStep(r, Op("logout", NoLobby, userID, "", NoToken, 0, RespCode(r.resp)))

\* register_user without a token, or with a username and a token drawn as
\* in StoredTokens
ClientRegisterUser ==
  \E username \in Usernames, token \in {NoToken} \cup StoredTokens :
    LET r == RegisterUserHandler(lobbies, SM, username, token)
    IN /\ r.sm.nextId <= MaxUsers
       /\ HandlerStep(r, Op("register_user", NoLobby, NoID, username, token,
                            RegisterPath(SM, username, token), RespCode(r.resp)))

\* the application deletes a lobby through the LobbyManager
CallDeleteLobby ==
  \E l \in ReqNames :
    LET r == DeleteLobby(lobbies, l)
    IN /\ MgrStep(r, Op("DeleteLobby", l, NoID, "", NoToken, 0, r.err))

\* ------------------------------------------- direct SessionManager calls
CallCreateSession ==
  \E username \in Usernames :
    LET r == CreateSession(SM, username)
    IN /\ nextId < MaxSessions
       /\ SessStep(r.sm, Op("CreateSession", NoLobby, r.id, username,
                            r.sm.sessions[r.id].Token, 0, ""))

CallRemoveSession ==
  \E userID \in UserIDs :
    SessStep(RemoveSession(SM, userID),
             Op("RemoveSession", NoLobby, userID, "", NoToken, 0, ""))

CallForceRemoveSession ==
  \E userID \in UserIDs :
    SessStep(ForceRemoveSession(SM, userID),
             Op("ForceRemoveSession", NoLobby, userID, "", NoToken, 0, ""))

CallGetSessionByID ==
  \E userID \in UserIDs :
    LET r == GetSessionByID(SM, userID)
    IN SessStep(r.sm, Op("GetSessionByID", NoLobby, r.id, "", NoToken, userID,
                         IF r.ok THEN "" ELSE "false"))

\* ------------------------------------------- goroutines on the LobbyManager
MaxGoroutines == 2                         \* concurrent callers
Goroutines == 1..MaxGoroutines

\* The calls goroutine g makes, as player / user g, on the lobby "Room".
GoCalls(g) ==
  {Op(o, "Room", g, "", NoToken, 0, "") :
     o \in {"CreateLobby", "JoinLobby", "LeaveLobby", "StartGame",
            "GetLobbyByID", "ListLobbies"}}
  \cup {Op("SetPlayerReady", "Room", g, "", NoToken, b, "") : b \in BOOLEAN}

\* The body of the method named in c, run on the registry lobs.
Perform(c, lobs) ==
  CASE c.op = "CreateLobby" -> CreateLobby(lobs, c.lobby, MaxCap, c.id)
    [] c.op = "JoinLobby" -> JoinLobby(lobs, c.lobby, NewPlayer(c.id, NameOf(c.id)))
    [] c.op = "LeaveLobby" -> LeaveLobby(lobs, c.lobby, c.id)
    [] c.op = "SetPlayerReady" -> SetPlayerReady(lobs, c.lobby, c.id, c.val)
    [] c.op = "StartGame" -> StartGame(lobs, c.lobby, c.id)
    [] c.op = "GetLobbyByID" ->
         MgrResult(lobs, IF GetLobbyByID(lobs, c.lobby) THEN "" ELSE "false", <<>>)
    [] OTHER -> MgrResult(lobs, "", <<>>)

NoCall == Op("none", NoLobby, NoID, "", NoToken, 0, "")

GoStep(g, step) ==
  /\ lastOp' = Op(step, NoLobby, g, "", NoToken, 0, "")
  /\ resp' = <<>>
  /\ UNCHANGED <<sessions, usernameToID, nextId, now, Events, Validator, smMu>>
  /\ UNCHANGED router

\* a goroutine enters a LobbyManager method and reaches m.mu.Lock()
GoCall ==
  \E g \in Goroutines :
    /\ pc[g] = "idle"
    /\ pc' = [pc EXCEPT ![g] = "lock"]
    /\ fired' = <<>>
    /\ UNCHANGED <<lobbies, mu, call, pending>>
    /\ GoStep(g, "call")

\* sync.Mutex: Lock returns only while nobody holds the mutex.
\* A mutex that lets every caller in.
MuFree_Always(m) == TRUE

MuFree(m) == m = 0

\* m.mu.Lock() returns; which method with which arguments the goroutine is
\* in is an input, drawn here
GoLock ==
  \E g \in Goroutines : \E c \in GoCalls(g) :
    /\ pc[g] = "lock"
    /\ MuFree(mu)
    /\ mu' = g
    /\ pc' = [pc EXCEPT ![g] = "body"]
    /\ call' = [call EXCEPT ![g] = c]
    /\ fired' = <<>>
    /\ UNCHANGED <<lobbies, pending>>
    /\ GoStep(g, "Lock")

\* the method's checks and its assignment to the registry
GoBody ==
  \E g \in Goroutines :
    /\ pc[g] = "body"
    /\ LET r == Perform(call[g], lobbies)
       IN /\ lobbies' = r.lobbies
          /\ call' = [call EXCEPT ![g].err = r.err]
          /\ pending' = [pending EXCEPT ![g] = r.fired]
    /\ pc' = [pc EXCEPT ![g] = "hooks"]
    /\ fired' = <<>>
    /\ UNCHANGED mu
    /\ GoStep(g, "body")

\* the next hook or Broadcaster send of the call, still under the mutex
GoFire ==
  \E g \in Goroutines :
    /\ pc[g] = "hooks"
    /\ pending[g] # <<>>
    /\ fired' = <<Head(pending[g])>>
    /\ pending' = [pending EXCEPT ![g] = Tail(@)]
    /\ UNCHANGED <<lobbies, mu, pc, call>>
    /\ GoStep(g, "fire")

\* defer m.mu.Unlock(): the method returns
GoUnlock ==
  \E g \in Goroutines :
    /\ pc[g] = "hooks"
    /\ pending[g] = <<>>
    /\ mu' = IF mu = g THEN 0 ELSE mu
    /\ pc' = [pc EXCEPT ![g] = "idle"]
    /\ call' = [call EXCEPT ![g] = NoCall]
    /\ fired' = <<>>
    /\ UNCHANGED <<lobbies, pending>>
    /\ GoStep(g, "Unlock")

\* --------------------------------------------------------------- router.go
MaxMiddleware == 2                         \* middleware the application registers
Middlewares == {"logging", "metrics"}

\* The actions SetupDefaultHandlers and SetupDefaultHandlersWithCustom
\* register a handler for (the keys of r.handlers).
Actions ==
  {"register_user", "create_lobby", "join_lobby", "leave_lobby", "set_ready",
   "list_lobbies", "start_game", "get_lobby_info", "logout"}

\* The "data" of an envelope as json.Unmarshal leaves the request struct: a
\* missing field keeps its zero value; ok is FALSE when data is absent or is
\* not a JSON object of the request's shape.  lobby_id stands for "lobby_id"
\* and, in a create_lobby request, for "name".
Data(username, token, userID, lobbyID, maxPlayers, ready) ==
  [ok |-> TRUE, username |-> username, token |-> token, user_id |-> userID,
   lobby_id |-> lobbyID, max_players |-> maxPlayers, ready |-> ready]
NoData == [Data("", NoToken, NoID, NoLobby, 0, FALSE) EXCEPT !.ok = FALSE]

\* A raw message: text that is not JSON ("malformed"), a JSON value that is
\* not an object ("scalar"), the JSON null ("null"), or a JSON object with
\* its "action" member ("" when absent) and its "data" member.
Raw(kind, action, data) == [kind |-> kind, action |-> action, data |-> data]

\* Unmarshal that takes every raw message for an object.
Unmarshal_AcceptsAll(raw) ==
  [ok |-> TRUE, Action |-> raw.action, Data |-> raw.data]

\* encoding/json: json.Unmarshal(rawMsg, &msg) into an IncomingMessage
Unmarshal(raw) ==
  CASE raw.kind = "object" -> [ok |-> TRUE, Action |-> raw.action, Data |-> raw.data]
    [] raw.kind = "null" -> [ok |-> TRUE, Action |-> "", Data |-> NoData]
    [] OTHER -> [ok |-> FALSE, Action |-> "", Data |-> NoData]

\* r.handlers[msg.Action](conn, msg): every handler but list_lobbies first
\* unmarshals msg.Data into its request struct and answers INVALID_MESSAGE
\* when that fails.
CallHandler(action, lobs, sm, d, order) ==
  IF action # "list_lobbies" /\ ~d.ok
  THEN HandlerResult(lobs, sm, <<ErrorResponse("INVALID_MESSAGE")>>, <<>>)
  ELSE CASE action = "register_user" -> RegisterUserHandler(lobs, sm, d.username, d.token)
         [] action = "create_lobby" ->
              CreateLobbyHandler(lobs, sm, d.lobby_id, d.max_players, d.user_id, d.token)
         [] action = "join_lobby" -> JoinLobbyHandler(lobs, sm, d.lobby_id, d.user_id, d.token)
         [] action = "leave_lobby" -> LeaveLobbyHandler(lobs, sm, d.lobby_id, d.user_id, d.token)
         [] action = "set_ready" ->
              SetReadyHandler(lobs, sm, d.lobby_id, d.user_id, d.token, d.ready)
         [] action = "list_lobbies" -> ListLobbiesHandler(lobs, sm, order)
         [] action = "start_game" -> StartGameHandler(lobs, sm, d.lobby_id, d.user_id, d.token)
         [] action = "get_lobby_info" -> GetLobbyInfoHandler(lobs, sm, d.lobby_id)
         [] OTHER -> LogoutHandler(lobs, sm, d.user_id, order)

\* A MessageHandler value is the sequence of the names of the wrappers
\* around a base handler, outermost first, ending with the base handler.
\* A wrapper that puts the middleware next to the base handler.
Wrap_Innermost(mw, next) ==
  SubSeq(next, 1, Len(next) - 1) \o <<mw, next[Len(next)]>>

\* Dispatch: r.middleware[i](finalHandler)
Wrap(mw, next) == <<mw>> \o next

\* Dispatch: for i := len(r.middleware) - 1; i >= 0; i--
RECURSIVE ApplyMiddleware(_, _, _)
ApplyMiddleware(mws, i, finalHandler) ==
  IF i < 1 THEN finalHandler
  ELSE ApplyMiddleware(mws, i - 1, Wrap(mws[i], finalHandler))

\* finalHandler(conn, msg): a middleware does its work and calls next, the
\* base handler runs last; the names are listed in the order they start.
RECURSIVE Invocations(_)
Invocations(handler) ==
  IF handler = <<>> THEN <<>>
  ELSE <<Head(handler)>> \o Invocations(Tail(handler))

RouterResult(r, invoked, ret) ==
  [lobbies |-> r.lobbies, sm |-> r.sm, resp |-> r.resp, fired |-> r.fired,
   invoked |-> invoked, ret |-> ret]

\* router.go: Conn.  WriteJSON on an open connection returns nil, on a closed
\* one an error; a handler returns the error of its first failed write and
\* writes nothing after it.
Written(rs, conn) ==
  IF conn = "open" \/ rs = <<>> \/ rs[1].action = "panic" THEN rs ELSE <<rs[1]>>

\* What a handler returns: the error of its last conn.WriteJSON, nil when it
\* wrote nothing; a panic unwinds through the callers instead.
Returned(rs, conn) ==
  IF \E i \in 1..Len(rs) : rs[i].action = "panic" THEN "panic"
  ELSE IF rs # <<>> /\ conn = "closed" THEN "write error"
  ELSE "nil"

\* router.go: MessageRouter.Dispatch
Dispatch(lobs, sm, mws, raw, order, conn) ==
  LET msg == Unmarshal(raw) IN
  IF ~msg.ok
  THEN RouterResult(HandlerResult(lobs, sm, <<ErrorResponse("INVALID_MESSAGE")>>, <<>>),
                    <<>>, Returned(<<ErrorResponse("INVALID_MESSAGE")>>, conn))
  ELSE IF msg.Action \notin Actions
  THEN RouterResult(HandlerResult(lobs, sm, <<ErrorResponse("UNKNOWN_ACTION")>>, <<>>),
                    <<>>, Returned(<<ErrorResponse("UNKNOWN_ACTION")>>, conn))
  ELSE LET finalHandler == ApplyMiddleware(mws, Len(mws), <<msg.Action>>)
           h == CallHandler(msg.Action, lobs, sm, msg.Data, order)
           r == [h EXCEPT !.resp = Written(h.resp, conn)]
       IN RouterResult(r, Invocations(finalHandler), Returned(r.resp, conn))

NoDispatch ==
  [raw |-> Raw("none", "", NoData), conn |-> "open", invoked |-> <<>>, ret |-> "nil"]

\* router.go: MessageRouter.Use
Use ==
  \E mw \in Middlewares :
    /\ Len(middleware) < MaxMiddleware
    /\ middleware' = Append(middleware, mw)
    /\ dispatched' = NoDispatch
    /\ lastOp' = Op("Use", NoLobby, NoID, mw, NoToken, 0, "")
    /\ fired' = <<>>
    /\ resp' = <<>>
    /\ UNCHANGED <<lobbies, sessions, usernameToID, nextId, now, Events, Validator>>
    /\ UNCHANGED <<goroutines, validated>>

RouterStep(r, raw, conn) ==
  /\ lobbies' = r.lobbies
  /\ sessions' = r.sm.sessions
  /\ usernameToID' = r.sm.usernameToID
  /\ nextId' = r.sm.nextId
  /\ fired' = r.fired
  /\ resp' = r.resp
  /\ dispatched' = [raw |-> raw, conn |-> conn, invoked |-> r.invoked, ret |-> r.ret]
  /\ lastOp' = Op(raw.action, raw.data.lobby_id, raw.data.user_id, raw.data.username,
                  raw.data.token, RegisterPath(SM, raw.data.username, raw.data.token),
                  RespCode(r.resp))
  /\ UNCHANGED <<now, Events, Validator, middleware, validated>>
  /\ UNCHANGED goroutines

\* Messages no handler is registered for, or that are no envelope at all.
Unroutable ==
  {Raw(k, "", NoData) : k \in {"malformed", "scalar", "null"}}
    \cup {Raw("object", a, NoData) : a \in {"", "ping"}}
    \cup {Raw("malformed", "logout", Data("", NoToken, id, NoLobby, 0, FALSE)) :
            id \in DOMAIN sessions}

\* The user_id and token a client puts in a request: those of a session, or
\* the first session's id with a token of the client's own making.
Credentials ==
  {<<id, sessions[id].Token>> : id \in DOMAIN sessions}
    \cup {<<id, BogusToken>> : id \in DOMAIN sessions \cap {1}}

Registrations ==
  {Raw("object", "register_user", Data(u, t, NoID, NoLobby, 0, FALSE)) :
     u \in Usernames, t \in {NoToken} \cup StoredTokens}

\* Envelopes for the registered actions, some of them without data, and two
\* messages that cannot be routed.
Requests ==
  Registrations
    \cup {Raw("malformed", "", NoData), Raw("object", "ping", NoData)}
    \cup {Raw("object", a, NoData) : a \in {"join_lobby", "list_lobbies", "logout"}}
    \cup {Raw("object", "create_lobby", Data("", c[2], c[1], l, n, FALSE)) :
            c \in Credentials, l \in ReqNames, n \in {0, MaxCap}}
    \cup {Raw("object", a, Data("", c[2], c[1], l, 0, FALSE)) :
            a \in {"join_lobby", "leave_lobby", "start_game"},
            c \in Credentials, l \in ReqNames}
    \cup {Raw("object", "set_ready", Data("", c[2], c[1], l, 0, b)) :
            c \in Credentials, l \in ReqNames, b \in BOOLEAN}
    \cup {Raw("object", "get_lobby_info", Data("", NoToken, NoID, l, 0, FALSE)) :
            l \in ReqNames}
    \cup {Raw("object", "logout", Data("", NoToken, id, NoLobby, 0, FALSE)) :
            id \in DOMAIN sessions}

\* cmd/example/main.go: router.Dispatch(ws, message), any message
DispatchMessage ==
  \E raw \in Requests, order \in Orders(DOMAIN lobbies) :
    LET r == Dispatch(lobbies, SM, middleware, raw, order, "open")
    IN /\ r.sm.nextId <= MaxUsers
       /\ RouterStep(r, raw, "open")

\* Envelopes of a client that registers, creates a lobby, looks at the
\* lobbies and logs out.
FewRequests ==
  {Raw("object", "register_user", Data(u, NoToken, NoID, NoLobby, 0, FALSE)) :
     u \in Usernames}
    \cup {Raw("object", "create_lobby", Data("", sessions[id].Token, id, l, MaxCap, FALSE)) :
            id \in DOMAIN sessions, l \in ReqNames}
    \cup {Raw("object", "list_lobbies", NoData)}
    \cup {Raw("object", "logout", Data("", NoToken, id, NoLobby, 0, FALSE)) :
            id \in DOMAIN sessions}

\* router.Dispatch(ws, message) on a router with middleware
DispatchThroughMiddleware ==
  \E raw \in Unroutable \cup FewRequests, order \in Orders(DOMAIN lobbies),
     conn \in {"open", "closed"} :
    LET r == Dispatch(lobbies, SM, middleware, raw, order, conn)
    IN /\ r.sm.nextId <= MaxUsers
       /\ RouterStep(r, raw, conn)

\* ------------------------------------- handlers running on several goroutines
\* One goroutine per connection runs the handler of that connection's
\* request.  Every SessionManager and LobbyManager method holds its mutex from
\* entry to return, so each call is one step; between two calls of a handler
\* the other goroutines may run.  call[g] is the request goroutine g is
\* handling, with the code of its answer in err; pc[g] is the call it makes
\* next.
RunRequests ==
  {Op("register_user", NoLobby, NoID, u, NoToken, "", "") : u \in Usernames}
    \cup {Op("create_lobby", l, id, "", sessions[id].Token, n, "") :
            l \in ReqNames, id \in DOMAIN sessions, n \in {1, MaxCap}}
    \cup {Op("join_lobby", l, id, "", sessions[id].Token, 0, "") :
            l \in ReqNames, id \in DOMAIN sessions}

RunStep(g, lobs, sm, fs, rs, next, c) ==
  /\ lobbies' = lobs
  /\ sessions' = sm.sessions
  /\ usernameToID' = sm.usernameToID
  /\ nextId' = sm.nextId
  /\ fired' = fs
  /\ resp' = rs
  /\ pc' = [pc EXCEPT ![g] = next]
  /\ call' = [call EXCEPT ![g] = c]
  /\ lastOp' = c
  /\ UNCHANGED <<now, Events, Validator, mu, pending, smMu>>
  /\ UNCHANGED router

\* the handler answers an error and returns; val keeps the call that failed
RunFail(g, sm, code) ==
  RunStep(g, lobbies, sm, <<>>, <<ErrorResponse(code)>>, "done",
          [call[g] EXCEPT !.err = code, !.val = pc[g]])

\* router.Dispatch(ws, message): the handler of the next request starts.  A
\* user has one connection, so the requests in progress on the other
\* goroutines are those of other users.
RunBegin ==
  \E g \in Goroutines : \E c \in RunRequests :
    /\ pc[g] \in {"idle", "done"}
    /\ mu = 0
    /\ c.id # NoID =>
         \A h \in Goroutines \ {g} : pc[h] \in {"idle", "done"} \/ call[h].id # c.id
    /\ RunStep(g, lobbies, SM, <<>>, <<>>,
               IF c.op = "register_user" THEN "IsUsernameTaken"
               ELSE "validateSessionToken", c)

\* handlers.go: RegisterUserHandler, deps.SessionManager.IsUsernameTaken
RunIsUsernameTaken ==
  \E g \in Goroutines :
    /\ pc[g] = "IsUsernameTaken"
    /\ IF IsUsernameTaken(SM, call[g].username)
       THEN RunFail(g, SM, "USERNAME_TAKEN")
       ELSE RunStep(g, lobbies, SM, <<>>, <<>>, "CreateSession", call[g])

\* handlers.go: RegisterUserHandler, deps.SessionManager.CreateSession and
\* the user_registered answer
RunCreateSession ==
  \E g \in Goroutines :
    /\ pc[g] = "CreateSession"
    /\ nextId < MaxUsers
    /\ LET r == CreateSession(SM, call[g].username)
       IN RunStep(g, lobbies, r.sm, <<>>, <<RegisterUserResponse(r.sm, r.id)>>, "done",
                  [call[g] EXCEPT !.id = r.id, !.token = r.sm.sessions[r.id].Token])

\* The registry call a handler makes once the token is validated.
FirstCall(op) ==
  CASE op = "create_lobby" -> "CreateLobby"
    [] op = "join_lobby" -> "JoinLobby"
    [] op = "leave_lobby" -> "LeaveLobby"
    [] op = "set_ready" -> "SetPlayerReady"
    [] op = "start_game" -> "GetLobbyByID"

\* handlers.go: validateSessionToken, as every handler but RegisterUserHandler
\* and LogoutHandler calls it first
RunValidateSessionToken ==
  \E g \in Goroutines :
    /\ pc[g] = "validateSessionToken"
    /\ LET v == validateSessionToken(SM, call[g].id, call[g].token)
       IN IF v.code # "" THEN RunFail(g, v.sm, v.code)
          ELSE RunStep(g, lobbies, v.sm, <<>>, <<>>, FirstCall(call[g].op), call[g])

\* handlers.go: CreateLobbyHandler, deps.LobbyManager.CreateLobby
RunCreateLobby ==
  \E g \in Goroutines :
    /\ pc[g] = "CreateLobby"
    /\ LET r == CreateLobby(lobbies, call[g].lobby, call[g].val, call[g].id)
       IN IF r.err # "" THEN RunFail(g, SM, "INTERNAL_ERROR")
          ELSE RunStep(g, r.lobbies, SM, r.fired, <<>>, "JoinLobby", call[g])

\* handlers.go: CreateLobbyHandler and JoinLobbyHandler,
\* deps.LobbyManager.JoinLobby
RunJoinLobby ==
  \E g \in Goroutines :
    /\ pc[g] = "JoinLobby"
    /\ LET r == JoinLobby(lobbies, call[g].lobby,
                          NewPlayer(call[g].id, sessions[call[g].id].Username))
       IN IF r.err # "" THEN RunFail(g, SM, "INTERNAL_ERROR")
          ELSE RunStep(g, r.lobbies, SM, r.fired, <<>>, "SetLobbyID", call[g])

\* handlers.go: CreateLobbyHandler and JoinLobbyHandler,
\* deps.SessionManager.SetLobbyID, then the lobby_state answer
RunSetLobbyID ==
  \E g \in Goroutines :
    /\ pc[g] = "SetLobbyID"
    /\ LET l == call[g].lobby
       IN RunStep(g, lobbies, SetLobbyID(SM, call[g].id, l), <<>>,
                  IF GetLobbyByID(lobbies, l)
                  THEN <<BuildLobbyStateResponse(lobbies[l], l)>> ELSE <<>>,
                  "done", call[g])

\* ------------------------------------- JoinLobby calls racing for one slot
\* JoinLobby statement by statement, for goroutines that call it at the same
\* time: m.mu.Lock(), the three checks, the append, each hook and send, and
\* the deferred Unlock.  Each goroutine makes one call; call[g] keeps the
\* error it returned and, in val, how often it fired OnLobbyFull.
SlotCalls ==
  {Op("JoinLobby", l, id, "", NoToken, 0, "") : l \in MgrNames, id \in UserIDs}

\* manager.go: JoinLobby, the checks before the append; "" when all pass
JoinLobbyChecks(lobs, l, player) ==
  IF l \notin DOMAIN lobs THEN "lobby does not exist"
  ELSE IF Len(lobs[l].Players) >= lobs[l].MaxPlayers THEN "lobby is full"
  ELSE IF HasPlayer(lobs[l].Players, player.ID) THEN "player already in lobby"
  ELSE ""

\* manager.go: JoinLobby, the append, the hooks and the broadcast
JoinLobbyAppend(lobs, l, player) ==
  LET lobby == [lobs[l] EXCEPT !.Players = Append(@, player)]
  IN MgrResult(Put(lobs, l, lobby), "",
               FireIf(Bound, Hook("OnPlayerJoin", l, player.ID))
               \o FireIf(Bound /\ Len(lobby.Players) = lobby.MaxPlayers,
                         Hook("OnLobbyFull", l, NoID))
               \o FireIf(Bound, Hook("OnLobbyStateChange", l, NoID))
               \o broadcastLobbyState(lobby, l))

\* A JoinLobby that unlocks the mutex as soon as its checks have passed.
HeldAfterChecks_Released(g) == 0

\* defer m.mu.Unlock(): the caller keeps the mutex until the method returns
HeldAfterChecks(g) == g

\* No call is in progress.
Quiet == \A g \in Goroutines : pc[g] = "idle"

\* the application creates the lobby before the callers arrive
SetupCreateLobby == Quiet /\ CallCreateLobby

\* earlier joins, each completed before the callers arrive
SetupJoinLobby == Quiet /\ CallJoinLobby

\* a goroutine calls JoinLobby and reaches m.mu.Lock()
SlotCall ==
  \E g \in Goroutines : \E c \in SlotCalls :
    /\ pc[g] = "idle"
    /\ pc' = [pc EXCEPT ![g] = "lock"]
    /\ call' = [call EXCEPT ![g] = c]
    /\ fired' = <<>>
    /\ UNCHANGED <<lobbies, mu, pending>>
    /\ GoStep(g, "call")

\* m.mu.Lock() returns
SlotLock ==
  \E g \in Goroutines :
    /\ pc[g] = "lock"
    /\ MuFree(mu)
    /\ mu' = g
    /\ pc' = [pc EXCEPT ![g] = "check"]
    /\ fired' = <<>>
    /\ UNCHANGED <<lobbies, call, pending>>
    /\ GoStep(g, "Lock")

\* the lookup of the lobby, the capacity test and the search for the player
SlotCheck ==
  \E g \in Goroutines :
    /\ pc[g] = "check"
    /\ LET err == JoinLobbyChecks(lobbies, call[g].lobby,
                                  NewPlayer(call[g].id, NameOf(call[g].id)))
       IN /\ call' = [call EXCEPT ![g].err = err]
          /\ pc' = [pc EXCEPT ![g] = IF err = "" THEN "append" ELSE "hooks"]
          /\ mu' = IF err = "" /\ mu = g THEN HeldAfterChecks(g) ELSE mu
    /\ fired' = <<>>
    /\ UNCHANGED <<lobbies, pending>>
    /\ GoStep(g, "check")

\* lobby.Players = append(lobby.Players, player)
SlotAppend ==
  \E g \in Goroutines :
    /\ pc[g] = "append"
    /\ LET r == JoinLobbyAppend(lobbies, call[g].lobby,
                                NewPlayer(call[g].id, NameOf(call[g].id)))
       IN /\ lobbies' = r.lobbies
          /\ pending' = [pending EXCEPT ![g] = r.fired]
    /\ pc' = [pc EXCEPT ![g] = "hooks"]
    /\ fired' = <<>>
    /\ UNCHANGED <<mu, call>>
    /\ GoStep(g, "append")

\* the next hook or Broadcaster send of the call
SlotFire ==
  \E g \in Goroutines :
    /\ pc[g] = "hooks"
    /\ pending[g] # <<>>
    /\ fired' = <<Head(pending[g])>>
    /\ pending' = [pending EXCEPT ![g] = Tail(@)]
    /\ call' = [call EXCEPT ![g].val =
                  IF Head(pending[g]).hook = "OnLobbyFull" THEN @ + 1 ELSE @]
    /\ UNCHANGED <<lobbies, mu, pc>>
    /\ GoStep(g, "fire")

\* the method returns and the deferred m.mu.Unlock() runs
SlotReturn ==
  \E g \in Goroutines :
    /\ pc[g] = "hooks"
    /\ pending[g] = <<>>
    /\ mu' = IF mu = g THEN 0 ELSE mu
    /\ pc' = [pc EXCEPT ![g] = "done"]
    /\ fired' = <<>>
    /\ UNCHANGED <<lobbies, call, pending>>
    /\ GoStep(g, "Unlock")

\* ---------------------------------------- goroutines on the SessionManager
\* sm.mu is a sync.RWMutex: RLock returns while no goroutine holds the write
\* lock, Lock returns while no goroutine holds the lock at all.
RLockFree(m) == m.writer = 0
LockFree(m) == m.writer = 0 /\ m.readers = {}

\* The methods that take sm.mu.Lock(); the others take sm.mu.RLock().
Exclusive(op) == op \in {"RemoveSession"}

\* The calls the goroutines make, for the sessions that exist.
SmCalls ==
  {Op("GetSessionByID", NoLobby, id, "", NoToken, 0, "") : id \in DOMAIN sessions}
    \cup {Op("ValidateSessionToken", NoLobby, NoID, sessions[id].Username,
              sessions[id].Token, 0, "") : id \in DOMAIN sessions}
    \cup {Op("IsUsernameTaken", NoLobby, NoID, sessions[id].Username, NoToken, 0, "") :
            id \in DOMAIN sessions}
    \cup {Op("RemoveSession", NoLobby, id, "", NoToken, 0, "") : id \in DOMAIN sessions}

\* The body of the method named in c, run on the registry sm.
SmPerform(c, sm) ==
  CASE c.op = "GetSessionByID" -> GetSessionByID(sm, c.id)
    [] c.op = "ValidateSessionToken" -> ValidateSessionToken(sm, c.username, c.token)
    [] c.op = "RemoveSession" -> SessResult(RemoveSession(sm, c.id), TRUE, c.id)
    [] OTHER -> SessResult(sm, IsUsernameTaken(sm, c.username), NoID)

\* The session whose LastSeen the body of c assigns, NoID if it assigns none.
WritesLastSeen(c, sm) ==
  LET r == SmPerform(c, sm) IN
  IF c.op = "GetSessionByID" /\ r.ok /\ sm.sessions[c.id].Active THEN c.id
  ELSE IF c.op = "ValidateSessionToken" /\ r.ok THEN r.id
  ELSE NoID

\* Goroutine g is inside a method, past the lock, about to assign LastSeen of
\* session id.
Assigning(g, id) ==
  /\ pc[g] = "body"
  /\ id # NoID
  /\ WritesLastSeen(call[g], SM) = id

SmStep(g, step, sm) ==
  /\ sessions' = sm.sessions
  /\ usernameToID' = sm.usernameToID
  /\ nextId' = sm.nextId
  /\ lastOp' = Op(step, NoLobby, g, "", NoToken, 0, "")
  /\ fired' = <<>>
  /\ resp' = <<>>
  /\ UNCHANGED <<lobbies, now, Events, Validator, mu, pending>>
  /\ UNCHANGED router

\* sessions created before the callers arrive
SetupCreateSession == Quiet /\ nextId < MaxUsers /\ CallCreateSession

\* a goroutine calls a SessionManager method and reaches its lock
SmCall ==
  \E g \in Goroutines : \E c \in SmCalls :
    /\ pc[g] = "idle"
    /\ pc' = [pc EXCEPT ![g] = "lock"]
    /\ call' = [call EXCEPT ![g] = c]
    /\ UNCHANGED smMu
    /\ SmStep(g, "call", SM)

\* sm.mu.RLock() returns
SmRLock ==
  \E g \in Goroutines :
    /\ pc[g] = "lock"
    /\ ~Exclusive(call[g].op)
    /\ RLockFree(smMu)
    /\ smMu' = [smMu EXCEPT !.readers = @ \cup {g}]
    /\ pc' = [pc EXCEPT ![g] = "body"]
    /\ UNCHANGED call
    /\ SmStep(g, "RLock", SM)

\* sm.mu.Lock() returns
SmLock ==
  \E g \in Goroutines :
    /\ pc[g] = "lock"
    /\ Exclusive(call[g].op)
    /\ LockFree(smMu)
    /\ smMu' = [smMu EXCEPT !.writer = g]
    /\ pc' = [pc EXCEPT ![g] = "body"]
    /\ UNCHANGED call
    /\ SmStep(g, "Lock", SM)

\* the method's lookups and assignments.  An assignment of LastSeen that
\* another goroutine makes at the same time is a data race on a time.Time
\* (three words): the value left behind is any mixture.
SmBody ==
  \E g \in Goroutines :
    /\ pc[g] = "body"
    /\ LET r == SmPerform(call[g], SM)
           id == WritesLastSeen(call[g], SM)
           raced == \E h \in Goroutines \ {g} : Assigning(h, id)
       IN \E t \in IF raced THEN 0..MaxTime ELSE {now} :
            /\ call' = [call EXCEPT ![g].err = IF r.ok THEN "" ELSE "false"]
            /\ SmStep(g, "body",
                      IF id = NoID THEN r.sm
                      ELSE [r.sm EXCEPT !.sessions[id].LastSeen = t])
    /\ pc' = [pc EXCEPT ![g] = "unlock"]
    /\ UNCHANGED smMu

\* defer sm.mu.RUnlock() / defer sm.mu.Unlock(): the method returns
SmUnlock ==
  \E g \in Goroutines :
    /\ pc[g] = "unlock"
    /\ smMu' = [writer |-> IF smMu.writer = g THEN 0 ELSE smMu.writer,
                readers |-> smMu.readers \ {g}]
    /\ pc' = [pc EXCEPT ![g] = "idle"]
    /\ call' = [call EXCEPT ![g] = NoCall]
    /\ SmStep(g, "Unlock", SM)

\* ----------------------------- start_game racing with the other requests
ClientSetReady ==
  \E userID \in DOMAIN sessions, l \in ReqNames, ready \in BOOLEAN :
    LET token == sessions[userID].Token
        r == SetReadyHandler(lobbies, SM, l, userID, token, ready)
    IN HandlerStep(r, Op("set_ready", l, userID, "", token, ready, RespCode(r.resp)))

ClientStartGame ==
  \E userID \in DOMAIN sessions, l \in ReqNames :
    LET token == sessions[userID].Token
        r == StartGameHandler(lobbies, SM, l, userID, token)
    IN HandlerStep(r, Op("start_game", l, userID, "", token, 0, RespCode(r.resp)))

\* requests handled to completion before the concurrent ones arrive
ServeRegisterUser == Quiet /\ ClientRegisterUser
ServeCreateLobby == Quiet /\ ClientCreateLobby
ServeJoinLobby == Quiet /\ ClientJoinLobby
ServeSetReady == Quiet /\ ClientSetReady

\* The requests whose handlers interleave: each user sends its own id and
\* token.
StartRequests ==
  {Op(o, l, id, "", sessions[id].Token, 0, "") :
     o \in {"start_game", "leave_lobby", "join_lobby"},
     l \in ReqNames, id \in DOMAIN sessions}
    \cup {Op("set_ready", l, id, "", sessions[id].Token, b, "") :
            l \in ReqNames, id \in DOMAIN sessions, b \in BOOLEAN}

\* router.Dispatch(ws, message): the handler of a connection's request
\* starts; the requests in progress on other connections are other users'
StartBegin ==
  \E g \in Goroutines : \E c \in StartRequests :
    /\ pc[g] = "idle"
    /\ mu = 0
    /\ \A h \in Goroutines \ {g} : pc[h] \in {"idle", "done"} \/ call[h].id # c.id
    /\ RunStep(g, lobbies, SM, <<>>, <<>>, "validateSessionToken", c)

\* handlers.go: StartGameHandler, deps.LobbyManager.GetLobbyByID
RunGetLobbyByID ==
  \E g \in Goroutines :
    /\ pc[g] = "GetLobbyByID"
    /\ IF ~GetLobbyByID(lobbies, call[g].lobby)
       THEN RunFail(g, SM, "LOBBY_NOT_FOUND")
       ELSE RunStep(g, lobbies, SM, <<>>, <<>>, "validateGameStart", call[g])

\* handlers.go: StartGameHandler, validateGameStart(l, session.Username).  l
\* is the *Lobby that GetLobbyByID returned, read as it is now; a lobby that
\* LeaveLobby has deleted since has no players left.
RunValidateGameStart ==
  \E g \in Goroutines :
    /\ pc[g] = "validateGameStart"
    /\ LET l == call[g].lobby
           err == IF Validator = "accept" THEN ""
                  ELSE IF l \notin DOMAIN lobbies THEN "need at least MinPlayers players"
                  ELSE ConfigurableGameStartValidator(GameStartConfig,
                         lobbies[l], sessions[call[g].id].Username)
       IN IF Validator = "nil"
          THEN RunStep(g, lobbies, SM, <<>>, <<Panicked>>, "done",
                       [call[g] EXCEPT !.err = "panic"])
          ELSE IF err # "" THEN RunFail(g, SM, "CANNOT_START_GAME")
          ELSE RunStep(g, lobbies, SM, <<>>, <<>>, "StartGame", call[g])

\* handlers.go: StartGameHandler, deps.LobbyManager.StartGame
RunStartGame ==
  \E g \in Goroutines :
    /\ pc[g] = "StartGame"
    /\ LET r == StartGame(lobbies, call[g].lobby, call[g].id)
       IN IF r.err # "" THEN RunFail(g, SM, "INTERNAL_ERROR")
          ELSE RunStep(g, r.lobbies, SM, r.fired, <<>>, "done", call[g])

\* handlers.go: SetReadyHandler, deps.LobbyManager.SetPlayerReady, then the
\* lobby_state answer
RunSetPlayerReady ==
  \E g \in Goroutines :
    /\ pc[g] = "SetPlayerReady"
    /\ LET l == call[g].lobby
           r == SetPlayerReady(lobbies, l, call[g].id, call[g].val)
       IN IF r.err # "" THEN RunFail(g, SM, "INTERNAL_ERROR")
          ELSE RunStep(g, r.lobbies, SM, r.fired,
                       IF GetLobbyByID(r.lobbies, l)
                       THEN <<BuildLobbyStateResponse(r.lobbies[l], l)>> ELSE <<>>,
                       "done", call[g])

\* handlers.go: LeaveLobbyHandler, deps.LobbyManager.LeaveLobby
RunLeaveLobby ==
  \E g \in Goroutines :
    /\ pc[g] = "LeaveLobby"
    /\ LET r == LeaveLobby(lobbies, call[g].lobby, call[g].id)
       IN IF r.err # "" THEN RunFail(g, SM, "INTERNAL_ERROR")
          ELSE RunStep(g, r.lobbies, SM, r.fired, <<>>, "ClearLobbyID", call[g])

\* handlers.go: LeaveLobbyHandler, deps.SessionManager.ClearLobbyID, then the
\* left_lobby answer
RunClearLobbyID ==
  \E g \in Goroutines :
    /\ pc[g] = "ClearLobbyID"
    /\ RunStep(g, lobbies, ClearLobbyID(SM, call[g].id), <<>>,
               <<Msg("left_lobby", "", NoID, "", NoToken, call[g].lobby, <<>>, "")>>,
               "done", call[g])

\* ------------------------------------------- the game-start validator alone
\* The configurations, lobbies and requester strings a validator is tried on.
\* A user name may be any string, the hex digits of a session id included.
ValidatorConfigs ==
  {<<>>} \cup { <<[MinPlayers |-> n, RequireAllReady |-> a, RequireOwnerOnly |-> o]>> :
                  n \in 1..MaxCap, a \in BOOLEAN, o \in BOOLEAN }

ValidatorNames == Usernames \cup {HexID(1)}

ValidatorPlayers ==
  [ID : MgrPlayers, Username : ValidatorNames, Ready : BOOLEAN]

ValidatorLobbies ==
  { [Players |-> ps, MaxPlayers |-> MaxCap, State |-> st, OwnerID |-> o] :
      ps \in { q \in UNION { [1..n -> ValidatorPlayers] : n \in 0..MaxCap } :
                 \A i, j \in 1..Len(q) : q[i].ID = q[j].ID => i = j },
      st \in {LobbyWaiting, LobbyInGame},
      o \in MgrPlayers }

NoValidation ==
  [called |-> FALSE, config |-> <<>>, username |-> "", err |-> "",
   lobby |-> [Players |-> <<>>, MaxPlayers |-> 0, State |-> LobbyWaiting,
              OwnerID |-> NoID]]

\* manager.go: ConfigurableGameStartValidator(config)(l, username). The
\* validator keeps no state, so one call per behaviour covers every call.
CallValidator ==
  /\ ~validated.called
  /\ \E config \in ValidatorConfigs, l \in ValidatorLobbies,
        username \in ValidatorNames \cup {"carol"} :
       validated' =
         [called |-> TRUE, config |-> config, lobby |-> l, username |-> username,
          err |-> ConfigurableGameStartValidator(ConfigOrDefault(config), l, username)]
  /\ lastOp' = Op("validateGameStart", NoLobby, NoID, validated'.username, NoToken,
                  0, validated'.err)
  /\ fired' = <<>>
  /\ resp' = <<>>
  /\ UNCHANGED <<lobbies, sessions, usernameToID, nextId, now, Events, Validator,
                 middleware, dispatched>>
  /\ UNCHANGED goroutines

\* ------------------------------- hooks that call the LobbyManager themselves
\* A hook or a Broadcaster is a function of the application; run by JoinLobby
\* it may return at once (SlotFire) or call a method of the same LobbyManager,
\* which begins with m.mu.Lock().
HookMethods == {"GetLobbyByID", "ListLobbies"}

\* the hook or send that is next for the call runs and calls a method of m
HookCallsManager ==
  \E g \in Goroutines : \E method \in HookMethods :
    /\ pc[g] = "hooks"
    /\ pending[g] # <<>>
    /\ pc' = [pc EXCEPT ![g] = "reenter"]
    /\ fired' = <<Head(pending[g])>>
    /\ UNCHANGED <<lobbies, mu, call, pending>>
    /\ GoStep(g, method)

\* m.mu.Lock() returns, in JoinLobby or in the method a hook called; a
\* sync.Mutex does not know its holder, so Lock waits for the mutex to be
\* free even when the waiting goroutine is the one that holds it
MuLock ==
  \E g \in Goroutines :
    /\ pc[g] \in {"lock", "reenter"}
    /\ MuFree(mu)
    /\ mu' = g
    /\ pc' = [pc EXCEPT ![g] = IF pc[g] = "lock" THEN "check" ELSE "reentered"]
    /\ fired' = <<>>
    /\ UNCHANGED <<lobbies, call, pending>>
    /\ GoStep(g, "Lock")

\* a method returns and its deferred m.mu.Unlock() runs: JoinLobby returns to
\* its caller, the method a hook called returns to the hook, which returns
MuUnlock ==
  \E g \in Goroutines :
    /\ \/ pc[g] = "hooks" /\ pending[g] = <<>>
       \/ pc[g] = "reentered"
    /\ mu' = 0
    /\ pc' = [pc EXCEPT ![g] = IF pc[g] = "reentered" THEN "hooks" ELSE "done"]
    /\ pending' = [pending EXCEPT ![g] = IF pc[g] = "reentered" THEN Tail(@) ELSE @]
    /\ fired' = <<>>
    /\ UNCHANGED <<lobbies, call>>
    /\ GoStep(g, "Unlock")

\* manager.go: NewLobbyManager / NewLobbyManagerWithEvents,
\* session.go: NewSessionManager
Init ==
  /\ lobbies = <<>>
  /\ sessions = <<>>
  /\ usernameToID = <<>>
  /\ nextId = 0
  /\ now = 0
  /\ Events \in {"nil", "hooks", "custom"}
  /\ Validator \in {"nil", "accept", "default", "owner"}
  /\ mu = 0
  /\ pc = [g \in Goroutines |-> "idle"]
  /\ call = [g \in Goroutines |-> NoCall]
  /\ pending = [g \in Goroutines |-> <<>>]
  /\ smMu = [writer |-> 0, readers |-> {}]
  /\ lastOp = Op("init", NoLobby, NoID, "", NoToken, 0, "")
  /\ fired = <<>>
  /\ resp = <<>>
  /\ middleware = <<>>
  /\ dispatched = NoDispatch
  /\ validated = NoValidation

\* Concurrent callers of the LobbyManager: the mutex orders their calls.
NextMgr ==
  \/ CallCreateLobby
  \/ CallJoinLobby
  \/ CallLeaveLobby
  \/ CallSetPlayerReady
  \/ CallSetLobbyState
  \/ CallStartGame

InitMgr == Init /\ Validator = "nil"

SpecMgr == InitMgr /\ [][NextMgr]_vars

\* cmd/example/main.go: a LobbyManager with hooks and a Broadcaster
InitSess == Init /\ Events = "hooks" /\ Validator = "nil"

\* Clients registering, logging out, disconnecting and reconnecting, the
\* application validating tokens and sweeping stale sessions.
NextSess ==
  \/ SessRegisterUser
  \/ SessLogout
  \/ Disconnect
  \/ CallReconnectSession
  \/ CallValidateSessionToken
  \/ CallCleanupStaleSessions
  \/ Tick

SpecSess == InitSess /\ [][NextSess]_vars

\* A router set up with SetupDefaultHandlersWithCustom and the default
\* game-start validator, on a LobbyManager with hooks and a Broadcaster.
InitReq == Init /\ Events = "hooks" /\ Validator = "default"

\* Clients sending requests; each request is handled to completion before
\* the next one is read.
NextReq ==
  \/ ReqRegisterUser
  \/ ReqCreateLobby
  \/ ReqJoinLobby
  \/ ReqLeaveLobby
  \/ ReqSetReady
  \/ ReqStartGame
  \/ ReqLogout

SpecReq == InitReq /\ [][NextReq]_vars

\* Goroutines calling the methods of one LobbyManager with hooks installed.
InitConc == Init /\ Events = "hooks" /\ Validator = "nil"

NextConc ==
  \/ GoCall
  \/ GoLock
  \/ GoBody
  \/ GoFire
  \/ GoUnlock

SpecConc == InitConc /\ [][NextConc]_vars

\* An application calling the SessionManager's methods directly.
NextSM ==
  \/ CallCreateSession
  \/ CallRemoveSession
  \/ CallForceRemoveSession
  \/ CallGetSessionByID
  \/ CallReconnectSession
  \/ CallValidateSessionToken

SpecSM == InitSess /\ [][NextSM]_vars

\* Clients that register, create, join and leave lobbies, log out, lose
\* their connection and come back, while the application may delete lobbies.
NextRecon ==
  \/ ClientRegisterUser
  \/ ClientCreateLobby
  \/ ClientJoinLobby
  \/ ClientLeaveLobby
  \/ ClientLogout
  \/ Disconnect
  \/ CallDeleteLobby

SpecRecon == InitReq /\ [][NextRecon]_vars

\* The example server: SetupDefaultHandlers on a LobbyManager with hooks.
InitRouter == Init /\ Events = "hooks" /\ Validator = "nil"

\* An application registering middleware while clients send messages.
NextRouter ==
  \/ Use
  \/ DispatchThroughMiddleware

SpecRouter == InitRouter /\ [][NextRouter]_vars

\* A router set up by SetupDefaultHandlers, on a LobbyManager created with
\* or without event hooks.
InitDispatch == Init /\ Events \in {"nil", "hooks"} /\ Validator = "nil"

NextDispatch ==
  \/ DispatchMessage

SpecDispatch == InitDispatch /\ [][NextDispatch]_vars

\* A router set up by SetupDefaultHandlersWithCustom with the default
\* game-start validator, on a LobbyManager with hooks and a Broadcaster.
SpecServe == InitReq /\ [][NextDispatch]_vars

\* An application creating and deleting lobbies while players join and leave.
NextLife ==
  \/ CallCreateLobby
  \/ CallJoinLobby
  \/ CallLeaveLobby
  \/ CallSetLobbyState
  \/ CallDeleteLobby

SpecLife == InitMgr /\ [][NextLife]_vars

\* Connections served by one goroutine each: register_user, create_lobby and
\* join_lobby requests whose handlers interleave between registry calls.
NextRace ==
  \/ RunBegin
  \/ RunIsUsernameTaken
  \/ RunCreateSession
  \/ RunValidateSessionToken
  \/ RunCreateLobby
  \/ RunJoinLobby
  \/ RunSetLobbyID

SpecRace == InitReq /\ [][NextRace]_vars

\* Goroutines that call JoinLobby at the same time, on a lobby the
\* application has created and other players have joined before.
NextSlot ==
  \/ SetupCreateLobby
  \/ SetupJoinLobby
  \/ SlotCall
  \/ SlotLock
  \/ SlotCheck
  \/ SlotAppend
  \/ SlotFire
  \/ SlotReturn

SpecSlot == InitConc /\ [][NextSlot]_vars

\* Goroutines calling the methods of one SessionManager while time passes.
NextRW ==
  \/ SetupCreateSession
  \/ SmCall
  \/ SmRLock
  \/ SmLock
  \/ SmBody
  \/ SmUnlock
  \/ Tick

SpecRW == InitSess /\ [][NextRW]_vars

\* Users who registered and built a lobby, then one start_game, set_ready,
\* leave_lobby or join_lobby request per connection, each connection served
\* by its own goroutine.
NextStart ==
  \/ ServeRegisterUser
  \/ ServeCreateLobby
  \/ ServeJoinLobby
  \/ ServeSetReady
  \/ StartBegin
  \/ RunValidateSessionToken
  \/ RunGetLobbyByID
  \/ RunValidateGameStart
  \/ RunStartGame
  \/ RunSetPlayerReady
  \/ RunLeaveLobby
  \/ RunClearLobbyID
  \/ RunJoinLobby
  \/ RunSetLobbyID

SpecStart == InitReq /\ [][NextStart]_vars

\* A router set up by SetupDefaultHandlersWithCustom with the validator of a
\* configuration that sets RequireOwnerOnly.
InitOwner == Init /\ Events = "hooks" /\ Validator = "owner"

\* Clients that register, build a lobby, set themselves ready and start it.
NextOwner ==
  \/ ClientRegisterUser
  \/ ClientCreateLobby
  \/ ClientJoinLobby
  \/ ClientLeaveLobby
  \/ ClientSetReady
  \/ ClientStartGame

SpecOwner == InitOwner /\ [][NextOwner]_vars

\* A validator built by ConfigurableGameStartValidator and called directly.
NextValidator == CallValidator

SpecValidator == InitMgr /\ [][NextValidator]_vars

\* Clients that use every lobby name: create_lobby (with room for every
\* user), join_lobby, leave_lobby
AnyCreateLobby ==
  \E userID \in DOMAIN sessions, name \in Names, maxPlayers \in {MaxCap} :
    LET token == sessions[userID].Token
        r == CreateLobbyHandler(lobbies, SM, name, maxPlayers, userID, token)
    IN HandlerStep(r, Op("create_lobby", name, userID, "", token, maxPlayers,
                         RespCode(r.resp)))

AnyJoinLobby ==
  \E userID \in DOMAIN sessions, l \in Names :
    LET token == sessions[userID].Token
        r == JoinLobbyHandler(lobbies, SM, l, userID, token)
    IN HandlerStep(r, Op("join_lobby", l, userID, "", token, 0, RespCode(r.resp)))

AnyLeaveLobby ==
  \E userID \in DOMAIN sessions, l \in Names :
    LET token == sessions[userID].Token
        r == LeaveLobbyHandler(lobbies, SM, l, userID, token)
    IN HandlerStep(r, Op("leave_lobby", l, userID, "", token, 0, RespCode(r.resp)))

\* Clients of a server with several lobbies: they register, create, join and
\* leave lobbies, log out and come back.
NextOut ==
  \/ ClientRegisterUser
  \/ AnyCreateLobby
  \/ AnyJoinLobby
  \/ AnyLeaveLobby
  \/ ClientLogout

SpecOut == InitReq /\ [][NextOut]_vars

\* Clients that register, create and join lobbies, log out and come back.
NextLogout ==
  \/ ClientRegisterUser
  \/ AnyCreateLobby
  \/ AnyJoinLobby
  \/ ClientLogout

SpecLogout == InitReq /\ [][NextLogout]_vars

\* Goroutines calling JoinLobby on a LobbyManager whose hooks and Broadcaster
\* may call GetLobbyByID or ListLobbies.
NextHook ==
  \/ SetupCreateLobby
  \/ SetupJoinLobby
  \/ SlotCall
  \/ MuLock
  \/ SlotCheck
  \/ SlotAppend
  \/ SlotFire
  \/ HookCallsManager
  \/ MuUnlock

\* The steps of the goroutines that are inside a call: the scheduler runs a
\* goroutine that can take a step.
HookRun ==
  \/ MuLock
  \/ SlotCheck
  \/ SlotAppend
  \/ SlotFire
  \/ HookCallsManager
  \/ MuUnlock

SpecHook == InitConc /\ [][NextHook]_vars /\ WF_vars(HookRun)

\* ------------------------------------------------------------------ claims
Count(seq, name) == Cardinality({i \in 1..Len(seq) : seq[i].hook = name})
Sends(seq) == SelectSeq(seq, LAMBDA h : h.hook = "Broadcaster")
MemberIDs(lobby) == [i \in 1..Len(lobby.Players) |-> lobby.Players[i].ID]

\* C1: in every reachable state, for every maxPlayers value CreateLobby
\* accepts, every lobby in the registry has len(Players) <= MaxPlayers.
C1_CapacityNeverExceeded ==
  \A l \in DOMAIN lobbies : Len(lobbies[l].Players) <= lobbies[l].MaxPlayers

\* C6: a LeaveLobby that removes the last player deletes the lobby whatever
\* its state: GetLobbyByID reports it absent, ListLobbies does not contain
\* it, and every LeaveLobby on an absent lobby fails with "lobby does not
\* exist" and changes nothing.
C6_LastLeaveDeletesLobby ==
  [][ /\ ( /\ lastOp'.op = "LeaveLobby"
           /\ lastOp'.lobby \in DOMAIN lobbies
           /\ MemberIDs(lobbies[lastOp'.lobby]) = <<lastOp'.id>> )
         => ( /\ lastOp'.err = ""
              /\ ~GetLobbyByID(lobbies', lastOp'.lobby)
              /\ lastOp'.lobby \notin ListLobbies(lobbies') )
      /\ ( /\ lastOp'.op = "LeaveLobby"
           /\ lastOp'.lobby \notin DOMAIN lobbies )
         => ( /\ lastOp'.err = "lobby does not exist"
              /\ lobbies' = lobbies )
    ]_vars

\* C6 witness: the last member has left a lobby that was InGame, and the
\* lobby is gone.
C6_Witness ==
  /\ lastOp.op = "LeaveLobby"
  /\ lastOp.err = ""
  /\ lastOp.val = LobbyInGame
  /\ lastOp.lobby \notin DOMAIN lobbies

UniquePlayerIDs ==
  \A l \in DOMAIN lobbies :
    \A i, j \in 1..Len(lobbies[l].Players) :
      lobbies[l].Players[i].ID = lobbies[l].Players[j].ID => i = j

\* C8 (as stated): player ids are unique within a lobby in every reachable
\* state, and JoinLobby with a player id already present in the lobby fails
\* with the already-member error.
C8_Original ==
  /\ []UniquePlayerIDs
  /\ [][ ( /\ lastOp'.op = "JoinLobby"
           /\ lastOp'.lobby \in DOMAIN lobbies
           /\ HasPlayer(lobbies[lastOp'.lobby].Players, lastOp'.id) )
         => lastOp'.err = "player already in lobby"
      ]_vars

\* C8 (amended): player ids are unique within a lobby in every reachable
\* state; JoinLobby with a player id already present always fails and leaves
\* the registry unchanged, with the already-member error when the lobby has
\* free capacity and with the full error when it is at capacity.
C8_UniquePlayerIDs ==
  /\ []UniquePlayerIDs
  /\ [][ ( /\ lastOp'.op = "JoinLobby"
           /\ lastOp'.lobby \in DOMAIN lobbies
           /\ HasPlayer(lobbies[lastOp'.lobby].Players, lastOp'.id) )
         => ( /\ lobbies' = lobbies
              /\ lastOp'.err =
                   IF Len(lobbies[lastOp'.lobby].Players)
                        < lobbies[lastOp'.lobby].MaxPlayers
                   THEN "player already in lobby"
                   ELSE "lobby is full" )
      ]_vars

\* C8 witness: a member of a lobby with a free slot tried to join again and
\* was refused as already a member.
C8_Witness ==
  /\ lastOp.op = "JoinLobby"
  /\ lastOp.err = "player already in lobby"
  /\ lastOp.lobby \in DOMAIN lobbies
  /\ HasPlayer(lobbies[lastOp.lobby].Players, lastOp.id)
  /\ Len(lobbies[lastOp.lobby].Players) < lobbies[lastOp.lobby].MaxPlayers

\* C9: the only change ever made to an existing lobby's State is from
\* Waiting to InGame.
C9_StateOnlyAdvances ==
  [][ \A l \in DOMAIN lobbies \cap DOMAIN lobbies' :
        lobbies'[l].State # lobbies[l].State
          => ( /\ lobbies[l].State = LobbyWaiting
               /\ lobbies'[l].State = LobbyInGame )
    ]_vars

\* The authorization predicate StartGame is specified to apply: the plugged
\* in hook if there is one, otherwise "requester is the owner".
C10_Authorized(lobby, requester) ==
  IF Events = "custom" THEN CanStartGame(lobby, requester)
  ELSE requester = lobby.OwnerID

\* C10: StartGame on an existing lobby fails with Unauthorized when the
\* authorization predicate rejects, fails with AlreadyStarted when the state
\* is InGame, and otherwise sets the state to InGame, fires
\* OnLobbyStateChange once and broadcasts once (one send per member); on
\* either failure the lobby is unchanged and no hook or broadcast fires.
C10_StartGameContract ==
  [][ ( lastOp'.op = "StartGame" /\ lastOp'.lobby \in DOMAIN lobbies )
      => LET l == lastOp'.lobby
             lobby == lobbies[l]
         IN IF ~C10_Authorized(lobby, lastOp'.id)
            THEN /\ lastOp'.err = "not allowed to start the game"
                 /\ lobbies' = lobbies
                 /\ fired' = <<>>
            ELSE IF lobby.State = LobbyInGame
            THEN /\ lastOp'.err = "game already started"
                 /\ lobbies' = lobbies
                 /\ fired' = <<>>
            ELSE /\ lastOp'.err = ""
                 /\ lobbies' = [lobbies EXCEPT ![l].State = LobbyInGame]
                 /\ IF Bound
                    THEN /\ Len(fired') = 2 + Len(lobby.Players)
                         /\ fired'[1] = Hook("OnLobbyStateChange", l, NoID)
                         /\ Count(fired', "OnLobbyStateChange") = 1
                         /\ Count(fired', "broadcastLobbyState") = 1
                         /\ [i \in 1..Len(Sends(fired')) |-> Sends(fired')[i].player]
                              = MemberIDs(lobby)
                    ELSE fired' = <<>>
    ]_vars

\* C10 witness: an authorized requester started the game of a lobby with
\* members while hooks and a Broadcaster were installed.
C10_Witness ==
  /\ lastOp.op = "StartGame"
  /\ lastOp.err = ""
  /\ Bound
  /\ lastOp.lobby \in DOMAIN lobbies
  /\ lobbies[lastOp.lobby].State = LobbyInGame
  /\ Len(lobbies[lastOp.lobby].Players) >= 2
  /\ Count(fired, "Broadcaster") = Len(lobbies[lastOp.lobby].Players)

\* C2: at every instant there is at most one session with Active = TRUE per
\* username, after any sequence of register_user (with or without token),
\* logout, disconnect, ReconnectSession and CleanupStaleSessions.
C2_OneActiveSessionPerUsername ==
  \A a, b \in DOMAIN sessions :
    ( /\ sessions[a].Active
      /\ sessions[b].Active
      /\ sessions[a].Username = sessions[b].Username ) => a = b

\* The requests and calls that reach ReconnectSession.
C3_Reconnects == {"register_user", "ReconnectSession"}

\* Ids and tokens a step handed back to its caller.
C3_Returned ==
  {resp[i].user_id : i \in 1..Len(resp)} \cup {resp[i].token : i \in 1..Len(resp)}
    \cup (IF lastOp.op = "ReconnectSession" THEN {lastOp.id} ELSE {})

C4_ValidateIffActiveAndExactToken ==
  [][ lastOp'.op = "ValidateSessionToken" =>
        LET u == lastOp'.username
            indexed == u \in DOMAIN usernameToID /\ usernameToID[u] \in DOMAIN sessions
        IN /\ (lastOp'.err = "")
                <=> ( /\ indexed
                      /\ sessions[usernameToID[u]].Active
                      /\ sessions[usernameToID[u]].Token = lastOp'.token )
           /\ lastOp'.err = ""
                => ( /\ lastOp'.id = usernameToID[u]
                     /\ sessions[lastOp'.id].Username = u
                     /\ \A other \in DOMAIN sessions \ {lastOp'.id} :
                          sessions[other].Token # lastOp'.token )
           /\ \A id \in DOMAIN sessions :
                (sessions[id].Token = lastOp'.token
                   /\ (sessions[id].Username # u \/ ~sessions[id].Active))
                  => lastOp'.err # ""
    ]_vars

\* C4 witness: the token of a deactivated session was presented under its
\* own username and refused.
C4_Witness ==
  /\ lastOp.op = "ValidateSessionToken"
  /\ lastOp.err = "false"
  /\ lastOp.username \in DOMAIN usernameToID
  /\ usernameToID[lastOp.username] \in DOMAIN sessions
  /\ sessions[usernameToID[lastOp.username]].Token = lastOp.token
  /\ ~sessions[usernameToID[lastOp.username]].Active

\* The requests the specification calls state-mutating.
C5_Mutating ==
  {"create_lobby", "join_lobby", "leave_lobby", "set_ready", "start_game", "logout"}

\* The request carries the id of an active session and that session's token.
C5_Authentic(id, token) ==
  /\ id \in DOMAIN sessions
  /\ sessions[id].Active
  /\ sessions[id].Token = token

\* C5: a state-mutating request (create_lobby, join_lobby, leave_lobby,
\* set_ready, start_game, logout) that does not carry the id of an active
\* session together with that session's exact token leaves the session
\* registry and the lobby registry unchanged.
C5_NoChangeWithoutToken ==
  [][ ( /\ lastOp'.op \in C5_Mutating
        /\ ~C5_Authentic(lastOp'.id, lastOp'.token) )
      => ( /\ lobbies' = lobbies
           /\ sessions' = sessions
           /\ usernameToID' = usernameToID )
    ]_vars

\* C7: between requests, after any sequence of create_lobby, join_lobby,
\* leave_lobby and logout requests with any max_players value, every lobby in
\* the registry has at least one player.
C7_NoEmptyLobbyPersists ==
  \A l \in DOMAIN lobbies : Len(lobbies[l].Players) >= 1

\* The member a direct JoinLobby call passes for the id in lastOp.
JoinedPlayer == NewPlayer(lastOp'.id, NameOf(lastOp'.id))

\* C11: with hooks installed, OnLobbyFull fires exactly once in a step that
\* is a successful JoinLobby bringing len(Players) from MaxPlayers-1 to
\* MaxPlayers, and not at all in any other step (failed joins, joins leaving
\* free capacity, create, leave, ready, state changes, start).
C11_OnLobbyFullExactlyOnFill ==
  [][ Count(fired', "OnLobbyFull") =
        IF /\ Bound
           /\ lastOp'.op = "JoinLobby"
           /\ lastOp'.err = ""
           /\ lastOp'.lobby \in DOMAIN lobbies
           /\ Len(lobbies[lastOp'.lobby].Players) = lobbies[lastOp'.lobby].MaxPlayers - 1
        THEN 1 ELSE 0
    ]_vars

\* C11 witness: a join filled a two-player lobby and OnLobbyFull fired once.
C11_Witness ==
  /\ lastOp.op = "JoinLobby"
  /\ lastOp.err = ""
  /\ lastOp.lobby \in DOMAIN lobbies
  /\ lobbies[lastOp.lobby].MaxPlayers = 2
  /\ Len(lobbies[lastOp.lobby].Players) = 2
  /\ Count(fired, "OnLobbyFull") = 1

\* C12: a SetPlayerReady or SetLobbyState call whose value equals the
\* current one succeeds, changes nothing and fires no hook and no broadcast;
\* a SetPlayerReady repeated with the same arguments right after a successful
\* one fires nothing, so the two calls together fire OnPlayerReady and
\* broadcast at most once.
C12_SettersIdempotent ==
  [][ LET l == lastOp'.lobby
          noop == /\ lastOp'.err = ""
                  /\ lobbies' = lobbies
                  /\ fired' = <<>>
      IN /\ ( /\ lastOp'.op = "SetPlayerReady"
              /\ l \in DOMAIN lobbies
              /\ HasPlayer(lobbies[l].Players, lastOp'.id)
              /\ lobbies[l].Players[PlayerIndex(lobbies[l].Players, lastOp'.id)].Ready
                   = lastOp'.val ) => noop
         /\ ( /\ lastOp'.op = "SetLobbyState"
              /\ l \in DOMAIN lobbies
              /\ lobbies[l].State = lastOp'.val ) => noop
         /\ ( /\ lastOp.op = "SetPlayerReady"
              /\ lastOp.err = ""
              /\ lastOp' = lastOp )
            => ( /\ fired' = <<>>
                 /\ Count(fired, "OnPlayerReady") + Count(fired', "OnPlayerReady")
                      = (IF Bound /\ fired # <<>> THEN 1 ELSE 0)
                 /\ Count(fired, "broadcastLobbyState")
                      + Count(fired', "broadcastLobbyState")
                      = (IF Bound /\ fired # <<>> THEN 1 ELSE 0) )
    ]_vars

\* C12 witness: with hooks installed, SetPlayerReady(l, p, true) was called
\* for a player who was already ready: success, and nothing fired.
C12_Witness ==
  /\ Bound
  /\ lastOp.op = "SetPlayerReady"
  /\ lastOp.err = ""
  /\ lastOp.val = TRUE
  /\ fired = <<>>
  /\ lastOp.lobby \in DOMAIN lobbies
  /\ HasPlayer(lobbies[lastOp.lobby].Players, lastOp.id)
  /\ lobbies[lastOp.lobby].Players[PlayerIndex(lobbies[lastOp.lobby].Players, lastOp.id)].Ready

\* C13: JoinLobby fails with NotFound if the lobby is absent, else with Full
\* if len(Players) = MaxPlayers, else with AlreadyMember if the player id is
\* present (so a member re-joining a full lobby gets Full); every failed
\* JoinLobby leaves the registry unchanged and fires nothing.
C13_JoinLobbyErrors ==
  [][ lastOp'.op = "JoinLobby" =>
        LET l == lastOp'.lobby IN
        /\ l \notin DOMAIN lobbies => lastOp'.err = "lobby does not exist"
        /\ ( /\ l \in DOMAIN lobbies
             /\ Len(lobbies[l].Players) = lobbies[l].MaxPlayers )
           => lastOp'.err = "lobby is full"
        /\ ( /\ l \in DOMAIN lobbies
             /\ Len(lobbies[l].Players) < lobbies[l].MaxPlayers
             /\ HasPlayer(lobbies[l].Players, lastOp'.id) )
           => lastOp'.err = "player already in lobby"
        /\ lastOp'.err # "" => (lobbies' = lobbies /\ fired' = <<>>)
    ]_vars

\* C13 witness: a member tried to join its own full lobby again and got Full.
C13_Witness ==
  /\ lastOp.op = "JoinLobby"
  /\ lastOp.err = "lobby is full"
  /\ lastOp.lobby \in DOMAIN lobbies
  /\ lobbies[lastOp.lobby].MaxPlayers >= 1
  /\ HasPlayer(lobbies[lastOp.lobby].Players, lastOp.id)

\* C14: a successful JoinLobby appends the player at the end of Players and
\* changes nothing else; with hooks installed it fires, in this order,
\* OnPlayerJoin, OnLobbyFull (only if capacity is now exactly met),
\* OnLobbyStateChange, and then one send to each member of the new list,
\* the joiner included, and to nobody else.
C14_JoinLobbyOrder ==
  [][ ( lastOp'.op = "JoinLobby" /\ lastOp'.err = "" ) =>
        LET l == lastOp'.lobby
            after == [lobbies[l] EXCEPT !.Players = Append(@, JoinedPlayer)]
        IN /\ l \in DOMAIN lobbies
           /\ lobbies' = [lobbies EXCEPT ![l] = after]
           /\ fired' =
                IF ~Bound THEN <<>>
                ELSE <<Hook("OnPlayerJoin", l, lastOp'.id)>>
                     \o (IF Len(after.Players) = after.MaxPlayers
                         THEN <<Hook("OnLobbyFull", l, NoID)>> ELSE <<>>)
                     \o <<Hook("OnLobbyStateChange", l, NoID),
                          Hook("broadcastLobbyState", l, NoID)>>
                     \o [i \in 1..Len(after.Players) |->
                           Hook("Broadcaster", l, after.Players[i].ID)]
    ]_vars

\* C14 witness: a second player joined and filled the lobby; the joiner got
\* the last of the two sends.
C14_Witness ==
  /\ Bound
  /\ lastOp.op = "JoinLobby"
  /\ lastOp.err = ""
  /\ lastOp.lobby \in DOMAIN lobbies
  /\ Len(lobbies[lastOp.lobby].Players) = 2
  /\ Len(Sends(fired)) = 2
  /\ fired[Len(fired)] = Hook("Broadcaster", lastOp.lobby, lastOp.id)
  /\ Count(fired, "OnLobbyFull") = 1

\* Position of the first entry for a hook in a step's log, 0 if it is absent.
Pos(seq, name) ==
  IF Count(seq, name) = 0 THEN 0
  ELSE CHOOSE i \in 1..Len(seq) :
         seq[i].hook = name /\ \A j \in 1..(i - 1) : seq[j].hook # name

\* What a successful LeaveLobby does to the registry: the leaver is removed,
\* the order of the others is kept, an emptied lobby is deleted.
C15_Removed ==
  LET l == lastOp'.lobby
      rest == SelectSeq(lobbies[l].Players, LAMBDA p : p.ID # lastOp'.id)
  IN /\ l \in DOMAIN lobbies
     /\ HasPlayer(lobbies[l].Players, lastOp'.id)
     /\ lobbies' = IF rest = <<>> THEN Drop(lobbies, l)
                   ELSE [lobbies EXCEPT ![l].Players = rest]

\* C15 (as stated): a successful LeaveLobby removes the player, fires
\* OnPlayerLeave, then broadcasts to exactly the remaining members, and only
\* after the broadcast, if nobody is left, fires OnLobbyEmpty and then
\* OnLobbyDeleted and deletes the lobby.
C15_Original ==
  [][ ( lastOp'.op = "LeaveLobby" /\ lastOp'.err = "" ) =>
        LET l == lastOp'.lobby
            rest == SelectSeq(lobbies[l].Players, LAMBDA p : p.ID # lastOp'.id)
        IN /\ C15_Removed
           /\ Bound =>
                /\ fired'[1] = Hook("OnPlayerLeave", l, lastOp'.id)
                /\ [i \in 1..Len(Sends(fired')) |-> Sends(fired')[i].player]
                     = MemberIDs([Players |-> rest])
                /\ IF rest = <<>>
                   THEN /\ Pos(fired', "broadcastLobbyState") < Pos(fired', "OnLobbyEmpty")
                        /\ Pos(fired', "OnLobbyEmpty") < Pos(fired', "OnLobbyDeleted")
                   ELSE /\ Count(fired', "OnLobbyEmpty") = 0
                        /\ Count(fired', "OnLobbyDeleted") = 0
    ]_vars

\* C15 (amended): a successful LeaveLobby removes the player, keeping the
\* order of the others; with hooks installed it fires OnPlayerLeave, then
\* OnLobbyEmpty if nobody is left, then OnLobbyStateChange, then broadcasts
\* to exactly the remaining members (never the leaver), and last, if nobody
\* is left, fires OnLobbyDeleted and deletes the lobby.
C15_LeaveLobbyOrder ==
  [][ ( lastOp'.op = "LeaveLobby" /\ lastOp'.err = "" ) =>
        LET l == lastOp'.lobby
            rest == SelectSeq(lobbies[l].Players, LAMBDA p : p.ID # lastOp'.id)
        IN /\ C15_Removed
           /\ fired' =
                IF ~Bound THEN <<>>
                ELSE <<Hook("OnPlayerLeave", l, lastOp'.id)>>
                     \o (IF rest = <<>> THEN <<Hook("OnLobbyEmpty", l, NoID)>> ELSE <<>>)
                     \o <<Hook("OnLobbyStateChange", l, NoID),
                          Hook("broadcastLobbyState", l, NoID)>>
                     \o [i \in 1..Len(rest) |-> Hook("Broadcaster", l, rest[i].ID)]
                     \o (IF rest = <<>> THEN <<Hook("OnLobbyDeleted", l, NoID)>> ELSE <<>>)
    ]_vars

\* C15 witness: the first of two members left; the one remaining member got
\* the only send and the lobby stays.
C15_Witness ==
  /\ Bound
  /\ lastOp.op = "LeaveLobby"
  /\ lastOp.err = ""
  /\ lastOp.lobby \in DOMAIN lobbies
  /\ Len(lobbies[lastOp.lobby].Players) = 1
  /\ ~HasPlayer(lobbies[lastOp.lobby].Players, lastOp.id)
  /\ Len(Sends(fired)) = 1
  /\ Sends(fired)[1].player = lobbies[lastOp.lobby].Players[1].ID

\* A goroutine is running a method's checks, assignment, hooks or broadcast.
InMethod(g) == pc[g] \in {"body", "hooks"}

\* A goroutine's method has run its body and has not yet returned.
MidCall(g) == pc[g] = "hooks"

\* C16: between the body of a LobbyManager method and the completion of its
\* hooks and broadcast, no other goroutine's JoinLobby, LeaveLobby,
\* SetPlayerReady, StartGame, GetLobbyByID or ListLobbies runs its body
\* (reads or changes the registry): the registry stays as the method left
\* it and every other caller is idle or waiting for the mutex.
C16_MutationHooksBroadcastAtomic ==
  [][ \A g \in Goroutines :
        MidCall(g) =>
          /\ lobbies' = lobbies
          /\ \A h \in Goroutines \ {g} :
               /\ ~InMethod(h)
               /\ ~InMethod(h)'
    ]_vars

\* C16 witness: one goroutine's join has fired OnPlayerJoin and still has
\* hooks and sends to perform, while the other goroutine waits in Lock.
C16_Witness ==
  \E g, h \in Goroutines :
    /\ g # h
    /\ MidCall(g)
    /\ call[g].op = "JoinLobby"
    /\ call[g].err = ""
    /\ fired = <<Hook("OnPlayerJoin", "Room", g)>>
    /\ pending[g] # <<>>
    /\ pc[h] = "lock"

\* Some session of this username is active.
ActiveFor(username) ==
  \E id \in DOMAIN sessions : sessions[id].Active /\ sessions[id].Username = username

\* C17: CreateSession(username) fails with UsernameTaken, creating no
\* session and changing no index, whenever an active session for that
\* username exists; otherwise it creates an active session with a fresh id
\* and a fresh token.
C17_CreateSessionUsernameTaken ==
  [][ lastOp'.op = "CreateSession" =>
        IF ActiveFor(lastOp'.username)
        THEN /\ lastOp'.err # ""
             /\ sessions' = sessions
             /\ usernameToID' = usernameToID
        ELSE /\ lastOp'.err = ""
             /\ lastOp'.id \notin DOMAIN sessions
             /\ lastOp'.id \in DOMAIN sessions'
             /\ sessions'[lastOp'.id].Active
             /\ sessions'[lastOp'.id].Username = lastOp'.username
             /\ \A id \in DOMAIN sessions :
                  sessions[id].Token # sessions'[lastOp'.id].Token
    ]_vars

\* C18: register_user without a token for a username that has an active
\* session is answered with an error of code USERNAME_TAKEN and creates no
\* session; for a username whose sessions are all inactive it succeeds as a
\* fresh registration with a new id and a new token.
C18_UsernameTakenOnlyWhenActive ==
  [][ ( lastOp'.op = "register_user" /\ lastOp'.token = NoToken ) =>
        IF ActiveFor(lastOp'.username)
        THEN /\ lastOp'.err = "USERNAME_TAKEN"
             /\ DOMAIN sessions' = DOMAIN sessions
        ELSE /\ lastOp'.err = ""
             /\ resp'[1].action = "user_registered"
             /\ resp'[1].user_id \notin DOMAIN sessions
             /\ resp'[1].user_id \in DOMAIN sessions'
             /\ sessions'[resp'[1].user_id].Active
             /\ resp'[1].token = sessions'[resp'[1].user_id].Token
             /\ \A id \in DOMAIN sessions : sessions[id].Token # resp'[1].token
    ]_vars

\* C20: ForceRemoveSession(id) deletes the session record whether it is
\* active or not: afterwards GetSessionByID(id) reports not found, the
\* username index does not refer to id, and ReconnectSession with the old
\* username and token fails.
C20_ForceRemoveDeletes ==
  [][ ( lastOp'.op = "ForceRemoveSession" /\ lastOp'.id \in DOMAIN sessions ) =>
        LET id == lastOp'.id
            old == sessions[id]
        IN /\ ~GetSessionByID(SM', id).ok
           /\ \A u \in DOMAIN usernameToID' : usernameToID'[u] # id
           /\ ~ReconnectSession(SM', old.Username, old.Token).ok
    ]_vars

\* C19: when register_user carries the username and the exact token of a
\* deactivated session, the answer is user_registered with that session's
\* id; if the session's LobbyID names a lobby that still exists and still
\* lists the user, the user is a member of it when the request completes and
\* a lobby_state for that lobby follows the user_registered answer; if the
\* LobbyID names a lobby that no longer exists, the LobbyID is cleared.
C19_ReconnectRestoresLobby ==
  [][ ( /\ lastOp'.op = "register_user"
        /\ lastOp'.token # NoToken
        /\ lastOp'.username \in DOMAIN usernameToID
        /\ usernameToID[lastOp'.username] \in DOMAIN sessions
        /\ ~sessions[usernameToID[lastOp'.username]].Active
        /\ sessions[usernameToID[lastOp'.username]].Token = lastOp'.token )
      => LET id == usernameToID[lastOp'.username]
             L == sessions[id].LobbyID
         IN /\ Len(resp') >= 1
            /\ resp'[1].action = "user_registered"
            /\ resp'[1].user_id = id
            /\ sessions'[id].Active
            /\ ( /\ L # NoLobby
                 /\ L \in DOMAIN lobbies
                 /\ HasPlayer(lobbies[L].Players, id) )
               => ( /\ L \in DOMAIN lobbies'
                    /\ HasPlayer(lobbies'[L].Players, id)
                    /\ sessions'[id].LobbyID = L
                    /\ Len(resp') = 2
                    /\ resp'[2].action = "lobby_state"
                    /\ resp'[2].lobby_id = L )
            /\ ( L # NoLobby /\ L \notin DOMAIN lobbies )
               => ( /\ sessions'[id].LobbyID = NoLobby
                    /\ lobbies' = lobbies )
    ]_vars

\* C19 witness: a disconnected member came back with its token and got
\* user_registered followed by the lobby_state of its lobby.
C19_Witness ==
  /\ lastOp.op = "register_user"
  /\ lastOp.val = "reconnected"
  /\ Len(resp) = 2
  /\ resp[2].action = "lobby_state"
  /\ resp[2].lobby_id \in DOMAIN lobbies
  /\ HasPlayer(lobbies[resp[2].lobby_id].Players, resp[1].user_id)
  /\ sessions[resp[1].user_id].LobbyID = resp[2].lobby_id

\* The sessions CleanupStaleSessions(maxAge) is to delete: inactive and last
\* seen more than maxAge ago.
C21_Stale(maxAge) ==
  {id \in DOMAIN sessions : ~sessions[id].Active /\ now - sessions[id].LastSeen > maxAge}

\* C21: CleanupStaleSessions(maxAge) deletes exactly the inactive sessions
\* whose LastSeen is older than maxAge, from the id map and from the username
\* index, and leaves every other session untouched: every session that
\* remains is still stored unchanged under its id and, if it was the session
\* indexed under its username, it still is, also when that username has an
\* older, replaced session.
C21_CleanupDeletesOnlyStale ==
  [][ lastOp'.op = "CleanupStaleSessions" =>
        LET stale == C21_Stale(lastOp'.val)
        IN /\ DOMAIN sessions' = DOMAIN sessions \ stale
           /\ \A id \in DOMAIN sessions' : sessions'[id] = sessions[id]
           /\ \A u \in DOMAIN usernameToID' : usernameToID'[u] \notin stale
           /\ \A u \in DOMAIN usernameToID :
                usernameToID[u] \notin stale =>
                  ( u \in DOMAIN usernameToID' /\ usernameToID'[u] = usernameToID[u] )
    ]_vars

\* A step of Dispatch (the other steps leave dispatched at NoDispatch).
Dispatching == dispatched'.raw.kind # "none"

\* The raw message is not an envelope: not JSON, or JSON of another type.
C22_NoEnvelope(raw) == raw.kind \in {"malformed", "scalar"}

\* The raw message is an envelope naming an action without a handler (the
\* JSON null unmarshals into the empty envelope).
C22_NoHandler(raw) ==
  \/ raw.kind = "null"
  \/ raw.kind = "object" /\ raw.action \notin Actions

\* C22: Dispatch on a raw message that is no envelope writes one error
\* response with code INVALID_MESSAGE, and on an envelope whose action has no
\* registered handler one error response with code UNKNOWN_ACTION; in both
\* cases no handler and no middleware is invoked and no registry state
\* changes.
C22_UnroutableAnsweredWithError ==
  [][ ( Dispatching
        /\ ( C22_NoEnvelope(dispatched'.raw) \/ C22_NoHandler(dispatched'.raw) ) )
      => /\ resp' = <<ErrorResponse(IF C22_NoEnvelope(dispatched'.raw)
                                    THEN "INVALID_MESSAGE" ELSE "UNKNOWN_ACTION")>>
         /\ dispatched'.invoked = <<>>
         /\ fired' = <<>>
         /\ lobbies' = lobbies
         /\ sessions' = sessions
         /\ usernameToID' = usernameToID
         /\ nextId' = nextId
    ]_vars

\* C22 witness: on a router with middleware and with a lobby and an active
\* session in the registries, text that is not JSON but spells a logout of
\* that session was answered with INVALID_MESSAGE.
C22_Witness ==
  /\ dispatched.raw.kind = "malformed"
  /\ dispatched.raw.action = "logout"
  /\ dispatched.raw.data.user_id \in DOMAIN sessions
  /\ sessions[dispatched.raw.data.user_id].Active
  /\ middleware # <<>>
  /\ lobbies # <<>>
  /\ Len(resp) = 1
  /\ resp[1].code = "INVALID_MESSAGE"

\* C23: for middleware registered with Use in the order m1, ..., mn,
\* Dispatch of an envelope with a registered action runs m1 first, then m2,
\* ..., then mn, then the base handler of the action, and returns what the
\* base handler returned.
C23_MiddlewareOrder ==
  [][ ( /\ Dispatching
        /\ dispatched'.raw.kind = "object"
        /\ dispatched'.raw.action \in Actions )
      => /\ dispatched'.invoked = middleware \o <<dispatched'.raw.action>>
         /\ dispatched'.ret = IF dispatched'.conn = "closed" /\ resp' # <<>>
                              THEN "write error" ELSE "nil"
    ]_vars

\* C23 witness: two different middleware are registered and a request went
\* through both of them to its handler, whose write error came back.
C23_Witness ==
  /\ Len(middleware) >= 2
  /\ middleware[1] # middleware[2]
  /\ Len(dispatched.invoked) = Len(middleware) + 1
  /\ dispatched.invoked[Len(dispatched.invoked)] = "create_lobby"
  /\ dispatched.ret = "write error"
  /\ lobbies # <<>>

\* A step of Dispatch that reaches the handler registered for the action.
Routed ==
  /\ Dispatching
  /\ dispatched'.raw.kind = "object"
  /\ dispatched'.raw.action \in Actions

\* The action of the success response of each request.
C24_Success(action) ==
  CASE action = "register_user" -> "user_registered"
    [] action = "leave_lobby" -> "left_lobby"
    [] action = "list_lobbies" -> "lobby_list"
    [] action = "get_lobby_info" -> "lobby_info"
    [] OTHER -> "lobby_state"

C24_Silent ==
  LET raw == dispatched'.raw
      l == raw.data.lobby_id
  IN \/ raw.action = "logout" /\ raw.data.ok
     \/ /\ raw.action = "start_game"
        /\ l \in DOMAIN lobbies
        /\ lobbies[l].State # LobbyInGame
        /\ l \in DOMAIN lobbies'
        /\ lobbies'[l].State = LobbyInGame

\* The request is a register_user whose token was accepted and whose session
\* keeps a lobby.
C24_Restored ==
  LET raw == dispatched'.raw
  IN /\ raw.action = "register_user"
     /\ raw.data.ok
     /\ lastOp'.val \in {"validated", "reconnected"}
     /\ sessions'[usernameToID[raw.data.username]].LobbyID # NoLobby

C25_NoRequestPanics == dispatched.ret # "panic"

\* The request carries the id and the token of an active session.
Authentic(d) ==
  /\ d.ok
  /\ d.user_id \in DOMAIN sessions
  /\ sessions[d.user_id].Active
  /\ sessions[d.user_id].Token = d.token

\* The error code the taxonomy names for the registry failure a join_lobby,
\* leave_lobby or set_ready request runs into ("" when it names none).
C26_Named(action, d) ==
  LET l == d.lobby_id
      member == l \in DOMAIN lobbies /\ HasPlayer(lobbies[l].Players, d.user_id)
      full == l \in DOMAIN lobbies /\ Len(lobbies[l].Players) >= lobbies[l].MaxPlayers
  IN CASE action = "join_lobby" /\ l \notin DOMAIN lobbies -> "LOBBY_NOT_FOUND"
       [] action = "join_lobby" /\ full /\ ~member -> "LOBBY_FULL"
       [] action = "join_lobby" /\ member /\ ~full -> "PLAYER_ALREADY_IN_LOBBY"
       [] action \in {"leave_lobby", "set_ready"} /\ l \in DOMAIN lobbies /\ ~member ->
            "PLAYER_NOT_IN_LOBBY"
       [] OTHER -> ""

\* C26: registry failures reach the client under the code of the error
\* taxonomy that names them: join_lobby on an absent lobby is answered
\* LOBBY_NOT_FOUND, on a full lobby LOBBY_FULL, by an existing member
\* PLAYER_ALREADY_IN_LOBBY; leave_lobby or set_ready by a non-member is
\* answered PLAYER_NOT_IN_LOBBY; INTERNAL_ERROR is not used for them.
C26_RegistryErrorCodes ==
  [][ ( /\ Routed
        /\ dispatched'.raw.action \in {"join_lobby", "leave_lobby", "set_ready"}
        /\ Authentic(dispatched'.raw.data)
        /\ C26_Named(dispatched'.raw.action, dispatched'.raw.data) # "" )
      => /\ Len(resp') = 1
         /\ resp'[1].action = "error"
         /\ resp'[1].code = C26_Named(dispatched'.raw.action, dispatched'.raw.data)
    ]_vars

C28_Fresh(maxPlayers, ownerID) ==
  [MaxPlayers |-> maxPlayers, Players |-> <<>>, State |-> LobbyWaiting,
   OwnerID |-> ownerID]

\* C28: CreateLobby fails with "lobby already exists", leaving the existing
\* lobby (players, state, owner) unchanged and firing nothing, exactly when
\* a lobby whose id equals the given name is in the registry; otherwise it
\* succeeds and stores a lobby in state Waiting with zero players and the
\* given owner.  In particular, right after a lobby has been deleted, by
\* DeleteLobby or by its last player leaving, CreateLobby with the same name
\* and any owner succeeds again.
C28_CreateLobbyAlreadyExists ==
  [][ /\ lastOp'.op = "CreateLobby" =>
           IF lastOp'.lobby \in DOMAIN lobbies
           THEN /\ lastOp'.err = "lobby already exists"
                /\ lobbies' = lobbies
                /\ fired' = <<>>
           ELSE /\ lastOp'.err = ""
                /\ lobbies' = Put(lobbies, lastOp'.lobby,
                                  C28_Fresh(lastOp'.val, lastOp'.id))
      /\ ( /\ lastOp'.op \in {"DeleteLobby", "LeaveLobby"}
           /\ lastOp'.lobby \in DOMAIN lobbies
           /\ lastOp'.lobby \notin DOMAIN lobbies' )
         => \A owner \in MgrPlayers :
              LET r == CreateLobby(lobbies', lastOp'.lobby, MaxCap, owner)
              IN /\ r.err = ""
                 /\ r.lobbies[lastOp'.lobby] = C28_Fresh(MaxCap, owner)
    ]_vars

\* C28 witness: CreateLobby was refused for the name of a lobby that has
\* players, has left the Waiting state and belongs to another owner.
C28_Witness ==
  /\ lastOp.op = "CreateLobby"
  /\ lastOp.err = "lobby already exists"
  /\ lastOp.lobby \in DOMAIN lobbies
  /\ Len(lobbies[lastOp.lobby].Players) >= 1
  /\ lobbies[lastOp.lobby].State # LobbyWaiting
  /\ lobbies[lastOp.lobby].OwnerID # lastOp.id

\* C29: when a create_lobby request has been answered with success, its
\* creator is the first member of the lobby and its OwnerID, also when other
\* users' join_lobby requests for the same lobby id run concurrently with
\* it; when it has been answered with an error because the creator could
\* not be joined to the lobby it had created, that lobby is not in the
\* registry.
C29_CreatorIsFirstMember ==
  \A g \in Goroutines :
    ( pc[g] = "done" /\ call[g].op = "create_lobby" ) =>
      IF call[g].err = ""
      THEN /\ call[g].lobby \in DOMAIN lobbies
           /\ lobbies[call[g].lobby].OwnerID = call[g].id
           /\ Len(lobbies[call[g].lobby].Players) >= 1
           /\ lobbies[call[g].lobby].Players[1].ID = call[g].id
      ELSE call[g].val = "JoinLobby" => call[g].lobby \notin DOMAIN lobbies

\* C30: when two register_user requests without a token for the same unused
\* username are handled concurrently, they are never both answered
\* user_registered: no two requests both obtain an active session for that
\* username.
C30_OneRegistrationWins ==
  \A g, h \in Goroutines :
    ( /\ g # h
      /\ pc[g] = "done" /\ call[g].op = "register_user" /\ call[g].err = ""
      /\ pc[h] = "done" /\ call[h].op = "register_user" /\ call[h].err = ""
      /\ call[g].username = call[h].username )
    => ~( /\ sessions[call[g].id].Active
          /\ sessions[call[h].id].Active )

\* The lobby l as it was before the goroutines' calls: the members other
\* than those a goroutine's JoinLobby has appended.
SlotBefore(l) ==
  [lobbies[l] EXCEPT !.Players =
     SelectSeq(@, LAMBDA p :
       ~\E k \in Goroutines : /\ pc[k] \in {"hooks", "done"}
                              /\ call[k].err = ""
                              /\ call[k].lobby = l
                              /\ call[k].id = p.ID)]

\* The player goroutine g passes to JoinLobby.
SlotPlayer(g) == NewPlayer(call[g].id, NameOf(call[g].id))

\* Goroutines g and h called JoinLobby with different players, neither a
\* member, on a lobby with exactly one free slot; no other call was made.
SlotRace(g, h) ==
  /\ g # h
  /\ call[g].op = "JoinLobby" /\ call[h].op = "JoinLobby"
  /\ call[g].lobby = call[h].lobby
  /\ call[g].id # call[h].id
  /\ \A k \in Goroutines \ {g, h} : pc[k] = "idle"
  /\ call[g].lobby \in DOMAIN lobbies
  /\ LET before == SlotBefore(call[g].lobby)
     IN /\ Len(before.Players) = before.MaxPlayers - 1
        /\ ~HasPlayer(before.Players, call[g].id)
        /\ ~HasPlayer(before.Players, call[h].id)

\* C31: when two JoinLobby calls by different players race for the last free
\* slot of a lobby and both have returned, one returned nil and the other
\* "lobby is full", OnLobbyFull was fired exactly once, and the registry and
\* the two return values are those of running the two calls one after the
\* other, in one of the two orders.
C31_LastSlotRaceIsOrdered ==
  \A g, h \in Goroutines :
    ( SlotRace(g, h) /\ pc[g] = "done" /\ pc[h] = "done" ) =>
      LET l == call[g].lobby
          before == Put(lobbies, l, SlotBefore(l))
          first == JoinLobby(before, l, SlotPlayer(g))
          second == JoinLobby(first.lobbies, l, SlotPlayer(h))
          firstH == JoinLobby(before, l, SlotPlayer(h))
          secondG == JoinLobby(firstH.lobbies, l, SlotPlayer(g))
      IN /\ {call[g].err, call[h].err} = {"", "lobby is full"}
         /\ call[g].val + call[h].val = 1
         /\ \/ /\ lobbies = second.lobbies
               /\ call[g].err = first.err
               /\ call[h].err = second.err
            \/ /\ lobbies = secondG.lobbies
               /\ call[h].err = firstH.err
               /\ call[g].err = secondG.err

\* C31 witness: goroutine g has taken the last slot and fired OnLobbyFull and
\* is still firing its hooks under the mutex, while goroutine h, which called
\* JoinLobby for another player in the meantime, waits in m.mu.Lock().
C31_Witness ==
  \E g, h \in Goroutines :
    /\ SlotRace(g, h)
    /\ pc[g] = "hooks"
    /\ call[g].err = ""
    /\ call[g].val = 1
    /\ pending[g] # <<>>
    /\ pc[h] = "lock"
    /\ mu = g

\* C32: no two goroutines are inside SessionManager methods at the same
\* time, both past the lock and both about to assign the LastSeen of the
\* same session: assignments to a session's field exclude one another.
C32_SessionWritesExclusive ==
  \A g, h \in Goroutines : \A id \in DOMAIN sessions :
    ( g # h /\ Assigning(g, id) ) => ~Assigning(h, id)

\* C33: a JoinLobby, LeaveLobby or SetPlayerReady call on a lobby that is
\* InGame leaves the lobby in the registry with its Players list and every
\* Ready flag as they were.
C33_MembersFrozenInGame ==
  [][ \A l \in DOMAIN lobbies :
        ( /\ lobbies[l].State = LobbyInGame
          /\ lastOp'.op \in {"JoinLobby", "LeaveLobby", "SetPlayerReady"}
          /\ lastOp'.lobby = l )
        => /\ l \in DOMAIN lobbies'
           /\ lobbies'[l].Players = lobbies[l].Players
    ]_vars

\* C34: whenever a start_game request handled with the default game-start
\* configuration moves a lobby to InGame, the lobby has at that instant at
\* least MinPlayers players and every one of them is ready, whichever
\* set_ready, leave_lobby and join_lobby requests are in progress.
C34_StartsOnlyWhenReady ==
  [][ \A l \in DOMAIN lobbies :
        ( /\ lastOp'.op = "start_game"
          /\ l \in DOMAIN lobbies'
          /\ lobbies[l].State # LobbyInGame
          /\ lobbies'[l].State = LobbyInGame )
        => /\ Len(lobbies[l].Players) >= DefaultGameStartConfig.MinPlayers
           /\ \A i \in 1..Len(lobbies[l].Players) : lobbies[l].Players[i].Ready
    ]_vars

\* The player-count and readiness conditions of the configuration hold for
\* lobby l, which is Waiting and has the requester among its players.
C35_Startable(l, userID) ==
  /\ l \in DOMAIN lobbies
  /\ lobbies[l].State = LobbyWaiting
  /\ Len(lobbies[l].Players) >= OwnerOnlyConfig.MinPlayers
  /\ \A i \in 1..Len(lobbies[l].Players) : lobbies[l].Players[i].Ready
  /\ HasPlayer(lobbies[l].Players, userID)

\* C35: with a configuration that sets RequireOwnerOnly, a start_game sent by
\* a member with its own token, on a lobby that meets the player-count and
\* readiness conditions, starts the game when the sender's session id is the
\* lobby's OwnerID, and is answered CANNOT_START_GAME, the lobby unchanged,
\* when the sender is another member.
C35_OwnerOnlyStart ==
  [][ ( /\ lastOp'.op = "start_game"
        /\ C35_Startable(lastOp'.lobby, lastOp'.id) )
      => IF lobbies[lastOp'.lobby].OwnerID = lastOp'.id
         THEN /\ lastOp'.err = ""
              /\ lobbies'[lastOp'.lobby].State = LobbyInGame
         ELSE /\ lastOp'.err = "CANNOT_START_GAME"
              /\ lobbies' = lobbies
    ]_vars

\* The configuration a validator built from config works with: the default
\* one for nil.
C36_Config(config) ==
  IF config = <<>>
  THEN [MinPlayers |-> 2, RequireAllReady |-> TRUE, RequireOwnerOnly |-> FALSE]
  ELSE config[1]

\* C36: ConfigurableGameStartValidator(config) accepts (lobby, requester)
\* exactly when the lobby is Waiting, has at least MinPlayers players, all of
\* them ready if RequireAllReady, the requester string is the lobby's OwnerID
\* if RequireOwnerOnly, and the requester string is the name of one of the
\* lobby's players; a nil config behaves as DefaultGameStartConfig.
C36_ValidatorAcceptsIff ==
  validated.called =>
    LET c == C36_Config(validated.config)
        l == validated.lobby
        requester == validated.username
    IN ( validated.err = "" )
       <=> /\ l.State = LobbyWaiting
           /\ Len(l.Players) >= c.MinPlayers
           /\ ( c.RequireAllReady => \A i \in 1..Len(l.Players) : l.Players[i].Ready )
           /\ ( c.RequireOwnerOnly => HexID(l.OwnerID) = requester )
           /\ \E i \in 1..Len(l.Players) : l.Players[i].Username = requester

C36_Witness ==
  /\ validated.called
  /\ validated.config # <<>>
  /\ validated.config[1].RequireOwnerOnly
  /\ validated.config[1].MinPlayers = 2
  /\ validated.err = ""

\* User U, as a logout leaves it: the session is kept, inactive, with an
\* empty LobbyID, and no lobby lists U.
C37_Out(ss, lobs, U) ==
  /\ U \in DOMAIN ss
  /\ ~ss[U].Active
  /\ ss[U].LobbyID = NoLobby
  /\ \A l \in DOMAIN lobs : ~HasPlayer(lobs[l].Players, U)

\* The step is a register_user that reconnects U with its token.
C37_Reconnects(U) ==
  /\ lastOp'.op = "register_user"
  /\ lastOp'.val = "reconnected"
  /\ usernameToID[lastOp'.username] = U

\* C37: a logout of U leaves U in no lobby, deletes every lobby whose only
\* member was U, and keeps U's session, inactive and with an empty LobbyID;
\* that condition of U lasts until U reconnects with its token, and the
\* reconnection puts U into no lobby.
C37_LogoutClearsMembership ==
  [][ \A U \in DOMAIN sessions :
        /\ ( lastOp'.op = "logout" /\ lastOp'.id = U )
           => /\ C37_Out(sessions', lobbies', U)
              /\ \A l \in DOMAIN lobbies :
                   ( /\ Len(lobbies[l].Players) = 1
                     /\ lobbies[l].Players[1].ID = U ) => l \notin DOMAIN lobbies'
        /\ ( C37_Out(sessions, lobbies, U) /\ ~C37_Reconnects(U) )
           => C37_Out(sessions', lobbies', U)
        /\ ( C37_Out(sessions, lobbies, U) /\ C37_Reconnects(U) )
           => /\ sessions'[U].Active
              /\ sessions'[U].LobbyID = NoLobby
              /\ lobbies' = lobbies
              /\ Len(resp') = 1
    ]_vars

\* U logged out of the two lobbies it was in, the only member of one of them.
C37_Witness ==
  /\ lastOp.op = "logout"
  /\ Count(fired, "OnPlayerLeave") = 2
  /\ Count(fired, "OnLobbyDeleted") = 1
  /\ C37_Out(sessions, lobbies, lastOp.id)

\* C38: after any sequence of create_lobby, join_lobby, leave_lobby and logout
\* requests, the OwnerID of every lobby that is in the registry with at least
\* one player is the id of one of its players.
C38_OwnerIsMember ==
  \A l \in DOMAIN lobbies :
    Len(lobbies[l].Players) >= 1 => HasPlayer(lobbies[l].Players, lobbies[l].OwnerID)

\* The lobbies that list the player of session id.
C39_LobbiesOf(id) == {l \in DOMAIN lobbies : HasPlayer(lobbies[l].Players, id)}

\* C39: with every request going through the handlers, a session is a member
\* of at most one lobby, and a non-empty LobbyID of an active session names a
\* lobby that exists and lists that session's player.
C39_OneLobbyPerSession ==
  \A id \in DOMAIN sessions :
    /\ Cardinality(C39_LobbiesOf(id)) <= 1
    /\ ( sessions[id].Active /\ sessions[id].LobbyID # NoLobby )
       => sessions[id].LobbyID \in C39_LobbiesOf(id)

\* C40: every JoinLobby call that has reached m.mu.Lock() eventually returns
\* with the mutex released, whatever the hooks and the Broadcaster it invokes
\* do, calls of GetLobbyByID or ListLobbies on the same LobbyManager included.
C40_OperationsReturn ==
  \A g \in Goroutines : ( pc[g] = "lock" ) ~> ( pc[g] = "done" /\ mu # g )

====
